---- MODULE Spec2Model ----
(***************************************************************************)
(* Flocking simulation of caza.la: Vector, Fish, SpatialGrid, Simulation.  *)
(*                                                                         *)
(* Numbers of the program are IEEE doubles.  They are modelled in fixed    *)
(* point: a model integer n stands for the program number n / Scale.       *)
(* Comparisons of magnitudes are made on squares, so they are exact.       *)
(***************************************************************************)
EXTENDS Integers, Sequences, FiniteSets, TLC

(***************************************************************************)
(* Representation of `number` (Vector.x, Vector.y, mass, ...).             *)
(***************************************************************************)
Scale == 100

\* A program number given in whole units.
Px(n) == n * Scale

(***************************************************************************)
(* constants.ts                                                            *)
(***************************************************************************)
LOOK_RANGE_MULTIPLIER == 200
SEPARATION_RANGE_MULTIPLIER == 30
LENGTH_MULTIPLIER == 20
MAX_SPEED_MULTIPLIER == 12
MIN_VELOCITY_MAG == 2
DEFAULT_VELOCITY_MAG == 5
MASS_THRESHOLD_BIGGER == 2
BOUNDARY_DISTANCE == 50
RESIZE_PADDING == 100
CLICK_THRESHOLD == 300
TOUCH_MOUSE_PREVENTION_TIMEOUT == 500
FOLLOW_RADIUS == 150
ATTRACTION_FORCE == 50
FOLLOW_FORCE_MULTIPLIER == 2
MIN_ATTRACTION_DISTANCE == 5
MAX_ATTRACTION_DISTANCE == 25
AVOID_RANGE == 300
WANDER_FORCE_MULTIPLIER == 100
BOUNDARY_FORCE_MULTIPLIER == 3
\* SEPARATION_WEIGHT: 1.4, ALIGNMENT_WEIGHT: 1.2, COHESION_WEIGHT: 1.0 and
\* RANDOM_WANDER_VECTOR: 0.2, in fixed point (hundredths).
SEPARATION_WEIGHT == 140
ALIGNMENT_WEIGHT == 120
COHESION_WEIGHT == 100
RANDOM_WANDER_VECTOR == 20
\* MASS_THRESHOLD_SMALLER: 0.5 and MAX_FORCE_DIVISOR: 0.1, in fixed point.
MASS_THRESHOLD_SMALLER == Scale \div 2
MAX_FORCE_DIVISOR == Scale \div 10
SPATIAL_CELL_SIZE == 100

\* NORMAL_INTERVAL and SLOW_INTERVAL in ms; DEFAULT_ALPHA: 1 and ALPHA_STEP:
\* 0.032, both in thousandths.
NORMAL_INTERVAL == 20
SLOW_INTERVAL == 45
DEFAULT_ALPHA == 1000
ALPHA_STEP == 32

\* SLOW_ALPHA: 0.5, in thousandths; MIN_FISH and MAX_FISH.
SLOW_ALPHA == 500
MIN_FISH == 30
MAX_FISH == 200

\* The fields fpsUpdateInterval, qualityLevels.medium.fishMax,
\* qualityLevels.low.fishMax, fpsThreshold.low, fpsThreshold.medium and
\* fpsHistorySize of the requestAnimationFrame revision of Simulation.
fpsUpdateInterval == 500
mediumFishMax == 60
lowFishMax == 30
fpsThresholdLow == 30
fpsThresholdMedium == 45
fpsHistorySize == 10

(***************************************************************************)
(* Bounds of the model.                                                    *)
(***************************************************************************)
\* Number of agents in the world of the grid and tick specifications.
NumFish == 2

\* Length of the neighbour list handed to categorizeFishByMass.
MaxNeighbors == 2

\* Space-key releases in one run, and transition timeouts pending at once when
\* the page calls start() or releases the key again.
MaxKeys == 2
MaxPending == 2

\* Ticks in one run of the tick specifications.
MaxTicks == 1

\* The last timestamp (ms) a frame is delivered at.
MaxTime == 615

\* Evaluations of the FPS window in one run of the population specification.
MaxEvals == 3
\* FPS samples recorded from construction on.
MaxSamples == 10
\* The latest Date.now() of a pointer event.
MaxInputTime == 1600

VARIABLES
  creatures,   \* world.creatures: sequence of Fish records
  cells,       \* SpatialGrid.cells: cell key -> sequence of references (indices into creatures)
  gridState,   \* "cleared", "fresh" (updateGrid ran, nothing moved since) or "stale"
  args,        \* the receiver and arguments of a function or method called on its own
  ret,         \* what that call returned or left in the receiver; NoValue before the call
  sim,         \* the Simulation instance: interval, alpha, slowmo, timeline, follow, ...
  browser,     \* the page: active setInterval timers, pending setTimeout callbacks and
               \* frame requests, registered event listeners, the clock
  trace        \* what the last step did: how often timestep() ran and what invoked
               \* it, the calls a tick made on each fish; whether stop() is in force

gridVars == <<creatures, cells, gridState>>
callVars == <<args, ret>>
simVars == <<sim, browser, trace>>

vars == <<creatures, cells, gridState, args, ret, sim, browser, trace>>

NoValue == [op |-> "none"]

\* The parts of the state a specification does not use.
NoWorld == creatures = <<>> /\ cells = [k \in {} |-> <<>>] /\ gridState = "cleared"
NoCall == args = NoValue /\ ret = NoValue
NoSim == sim = NoValue /\ browser = NoValue /\ trace = NoValue

(***************************************************************************)
(* Vector.ts                                                               *)
(***************************************************************************)
Vector(x, y) == [x |-> x, y |-> y]

Abs(n) == IF n < 0 THEN -n ELSE n

\* Vector.distSq / Vector.dist: dist(v) <= r  iff  distSq(v) <= r * r  (r >= 0).
distSq(a, b) == (a.x - b.x) * (a.x - b.x) + (a.y - b.y) * (a.y - b.y)

\* position.dist(location) <= radius, as SpatialGrid.query tests it.
distWithin(a, b, radius) ==
  /\ radius >= 0
  /\ Abs(a.x - b.x) <= radius
  /\ Abs(a.y - b.y) <= radius
  /\ distSq(a, b) <= radius * radius

\* const x = e; ...: the value of Body for x bound to the value of e.
With(e, Body(_)) == CHOOSE r \in {Body(x) : x \in {e}} : TRUE

\* add / sub / mul (mul by a whole number)
add(a, b) == Vector(a.x + b.x, a.y + b.y)
sub(a, b) == Vector(a.x - b.x, a.y - b.y)
mul(a, n) == Vector(a.x * n, a.y * n)

\* Truncation toward zero of a quotient (the fixed-point rounding of a division).
TruncDiv(a, b) == IF a < 0 THEN -((-a) \div b) ELSE a \div b

Max(a, b) == IF a > b THEN a ELSE b
Min(a, b) == IF a < b THEN a ELSE b

\* Math.sqrt, rounded down and rounded up, by bisection on [lo, hi].
RECURSIVE sqrtSearch(_, _, _)
sqrtSearch(n, lo, hi) ==
  IF lo >= hi THEN lo
  ELSE With((lo + hi + 1) \div 2, LAMBDA mid :
         IF mid * mid <= n THEN sqrtSearch(n, mid, hi)
         ELSE sqrtSearch(n, lo, mid - 1))

SqrtLimit == 46340
sqrtFloor(n) == With(n, LAMBDA m : sqrtSearch(m, 0, SqrtLimit))
sqrtCeil(n) == With(sqrtFloor(n), LAMBDA r : IF r * r = n THEN r ELSE r + 1)

\* mag() > l and mag() < l, decided on squares (exact); l is at most SqrtLimit.
magGreater(v, l) == Abs(v.x) > l \/ Abs(v.y) > l \/ v.x * v.x + v.y * v.y > l * l
magLess(v, l) == Abs(v.x) < l /\ Abs(v.y) < l /\ v.x * v.x + v.y * v.y < l * l

\* mag(): Math.sqrt(x * x + y * y), rounded down to the fixed-point grid.
mag(v) == sqrtFloor(v.x * v.x + v.y * v.y)

\* The direction of v carried at working precision: v rescaled so that its
\* larger component is near WorkSize (cos and sin of angle() keep the direction
\* whatever the length).
WorkSize == 30000
rescaled(v) ==
  With(Max(Abs(v.x), Abs(v.y)), LAMBDA big :
    IF big > WorkSize
      THEN LET k == big \div WorkSize + 1 IN Vector(TruncDiv(v.x, k), TruncDiv(v.y, k))
      ELSE LET k == WorkSize \div big IN Vector(v.x * k, v.y * k))

\* setMag(m): angle = atan2(y, x); x = m * cos(angle); y = m * sin(angle).
\* atan2(0, 0) is 0, so the zero vector becomes (m, 0).  Components are rounded
\* toward zero.
setMag(v0, m) ==
  With(v0, LAMBDA v :
    IF v.x = 0 /\ v.y = 0 THEN Vector(m, 0)
    ELSE With(rescaled(v), LAMBDA w :
         With(sqrtCeil(w.x * w.x + w.y * w.y), LAMBDA len :
           Vector(TruncDiv(m * w.x, len), TruncDiv(m * w.y, len)))))

\* limit(l) that sets the magnitude only when mag() exceeds twice l.
limit_Late(v0, l) == With(v0, LAMBDA v : IF magGreater(v, 2 * l) THEN setMag(v, l) ELSE v)

\* limit(l): if (mag > l) setMag(l)
limit(v0, l) == With(v0, LAMBDA v : IF magGreater(v, l) THEN setMag(v, l) ELSE v)

\* Vector.fromAngle(angle, magnitude) for the angles the model draws: a
\* direction is a triple <<c, s, h>> with cos = c / h and sin = s / h.
fromAngle(dir, magnitude) ==
  Vector(TruncDiv(magnitude * dir[1], dir[3]), TruncDiv(magnitude * dir[2], dir[3]))

(***************************************************************************)
(* Fish.ts: constructor                                                    *)
(***************************************************************************)
\* A quotient of two fixed-point numbers.
FixDiv(a, b) == TruncDiv(a * Scale, b)

\* A product of two fixed-point numbers.
FixMul(a, b) == TruncDiv(a * b, Scale)

\* new Fish(mass, x, y) with the initial velocity the constructor drew; _world is
\* null until boundaries() stores the world (models/Fish.ts).
Fish(id, mass, x, y, vel) ==
  [ ID |-> id,
    mass |-> mass,
    maxspeed |-> MAX_SPEED_MULTIPLIER * mass,
    maxforce |-> FixDiv(MAX_FORCE_DIVISOR, mass),
    separationRange |-> mass * SEPARATION_RANGE_MULTIPLIER,
    lookRange |-> mass * LOOK_RANGE_MULTIPLIER,
    length |-> mass * LENGTH_MULTIPLIER,
    location |-> Vector(x, y),
    velocity |-> vel,
    acceleration |-> Vector(0, 0),
    wandering |-> Vector(RANDOM_WANDER_VECTOR, RANDOM_WANDER_VECTOR),
    hasWorld |-> FALSE ]

(***************************************************************************)
(* models/Fish.ts: update, checkOutOfBounds                                *)
(***************************************************************************)
\* The random draws of checkOutOfBounds: Math.random() for x and for y (as
\* fixed-point fractions in [0, 1)) and the angle of Vector.random.
RandomFractions == {0, Scale \div 2}
RandomAngles == {<<1, 0, 1>>, <<0, 1, 1>>, <<-1, 0, 1>>, <<-3, -4, 5>>}
RandomDraws == [rx : RandomFractions, ry : RandomFractions, angle : RandomAngles]

\* The guard of checkOutOfBounds: a world is known and the fish is more than
\* BOUNDARY_DISTANCE * 5 outside it.
farOutside(fish, world) ==
  LET outOfBoundsThreshold == Px(BOUNDARY_DISTANCE) * 5
  IN  /\ fish.hasWorld
      /\ \/ fish.location.x < -outOfBoundsThreshold
         \/ fish.location.x > world.width + outOfBoundsThreshold
         \/ fish.location.y < -outOfBoundsThreshold
         \/ fish.location.y > world.height + outOfBoundsThreshold

checkOutOfBounds(fish, world, rnd) ==
  IF ~farOutside(fish, world) THEN fish
  ELSE LET safeMargin == Px(BOUNDARY_DISTANCE) * 3
           currentSpeed == TruncDiv(mag(fish.velocity) * 8, 10)
       IN  [fish EXCEPT
              !.location = Vector(safeMargin + FixMul(rnd.rx, world.width - safeMargin * 2),
                                  safeMargin + FixMul(rnd.ry, world.height - safeMargin * 2)),
              !.velocity = fromAngle(rnd.angle, currentSpeed)]

\* velocity.add(acceleration); velocity.limit(maxspeed);
\* if (velocity.mag() < MIN_VELOCITY_MAG) velocity.setMag(DEFAULT_VELOCITY_MAG)
integrate(fish) ==
  With(limit(add(fish.velocity, fish.acceleration), fish.maxspeed), LAMBDA limited :
    IF magLess(limited, Px(MIN_VELOCITY_MAG))
      THEN setMag(limited, Px(DEFAULT_VELOCITY_MAG))
      ELSE limited)

\* Fish.update()
update(fish, world, rnd) ==
  With(integrate(fish), LAMBDA v :
  With([fish EXCEPT !.velocity = v,
                    !.location = add(fish.location, v),
                    !.acceleration = mul(fish.acceleration, 0)], LAMBDA moved :
    checkOutOfBounds(moved, world, rnd)))

(***************************************************************************)
(* Fish.ts: behaviours                                                     *)
(***************************************************************************)
Zero == Vector(0, 0)

\* normalize() followed by mul(m): the zero vector stays zero, any other vector
\* keeps its direction and gets length m.
normalizeMul(v0, m) == With(v0, LAMBDA v : IF v = Zero THEN Zero ELSE setMag(v, m))

\* v.mul(w) for a fixed-point factor w.
scale(v0, w) == With(v0, LAMBDA v : Vector(FixMul(v.x, w), FixMul(v.y, w)))

\* applyForce(f)
applyForce(fish, f) == [fish EXCEPT !.acceleration = add(@, f)]

\* this.location.dist(other) < range
distLess(a, b, range) == With(sub(a, b), LAMBDA d : magLess(d, range))

\* boundaries(world)
boundaries(fish, world) ==
  With(fish.maxforce * BOUNDARY_FORCE_MULTIPLIER, LAMBDA push :
  With(IF fish.location.x < Px(BOUNDARY_DISTANCE)
         THEN applyForce(fish, Vector(push, 0)) ELSE fish, LAMBDA left :
  With(IF fish.location.x > world.width - Px(BOUNDARY_DISTANCE)
         THEN applyForce(left, Vector(-push, 0)) ELSE left, LAMBDA right :
  With(IF fish.location.y < Px(BOUNDARY_DISTANCE)
         THEN applyForce(right, Vector(0, push)) ELSE right, LAMBDA top :
    IF fish.location.y > world.height - Px(BOUNDARY_DISTANCE)
      THEN applyForce(top, Vector(0, -push)) ELSE top))))

\* a < angle / 2 || a > FULL_CIRCLE - angle / 2 with angle = FULL_CIRCLE, where
\* a = velocity.angle() - diff.angle(): false exactly when a is pi, that is when
\* diff.angle() is in (-pi, 0], velocity.angle() in (0, pi] and the two point in
\* opposite directions (atan2 of the zero vector is 0).
inFullCircle(velocity, diff) ==
  With(IF diff = Zero THEN Vector(1, 0) ELSE diff, LAMBDA d :
    ~ /\ velocity # Zero
      /\ velocity.x * d.y - velocity.y * d.x = 0
      /\ velocity.x * d.x + velocity.y * d.y < 0
      /\ (velocity.y > 0 \/ (velocity.y = 0 /\ velocity.x < 0)))

\* filterVisibleNeighbors without the test creature !== this.
filterVisibleNeighbors_WithSelf(fishes, self, nearbyFish) ==
  SelectSeq(nearbyFish,
            LAMBDA creature :
              inFullCircle(fishes[self].velocity,
                           sub(fishes[self].location, fishes[creature].location)))

\* filterVisibleNeighbors(nearbyFish, FULL_CIRCLE); fish are named by their
\* position in world.creatures, self being the fish's own position.
filterVisibleNeighbors(fishes, self, nearbyFish) ==
  SelectSeq(nearbyFish,
            LAMBDA creature :
              /\ creature # self
              /\ inFullCircle(fishes[self].velocity,
                              sub(fishes[self].location, fishes[creature].location)))

\* The quarter turns Math.random() can make wander() apply to the wandering
\* vector: none (probability 0.95) or a rotation by pi / 2.
WanderTurns == 0..1

rotateQuarter(v, turns) == IF turns = 0 THEN v ELSE Vector(-v.y, v.x)

\* wander()
wander(fish, turns) ==
  With(rotateQuarter(fish.wandering, turns), LAMBDA w :
    [fish EXCEPT !.wandering = w, !.velocity = add(@, w)])

\* attract(body, f), called on this
attract(this, body, f) ==
  With(sub(this.location, body.location), LAMBDA force :
  With(IF magLess(force, Px(MIN_ATTRACTION_DISTANCE)) THEN Px(MIN_ATTRACTION_DISTANCE)
       ELSE IF magGreater(force, Px(MAX_ATTRACTION_DISTANCE)) THEN Px(MAX_ATTRACTION_DISTANCE)
       ELSE mag(force), LAMBDA distance :
  With((f * Scale * this.mass * body.mass) \div (distance * distance), LAMBDA strength :
    normalizeMul(force, strength))))

\* chase(creatures): applyForce(creature.attract(this, ATTRACTION_FORCE)) for
\* each creature from position k on
RECURSIVE chaseFrom(_, _, _)
chaseFrom(fish0, others, k) ==
  With(fish0, LAMBDA fish :
    IF k > Len(others) THEN fish
    ELSE chaseFrom(applyForce(fish, attract(others[k], fish, ATTRACTION_FORCE)), others, k + 1))

chase(fish, others) == chaseFrom(fish, others, 1)

\* follow(target, arrive)
follow(fish, target, arrive) ==
  With(sub(target, fish.location), LAMBDA dest :
  With(sub(dest, fish.location), LAMBDA away :
  With(IF magLess(away, arrive) THEN (mag(away) * fish.maxspeed) \div arrive
       ELSE fish.maxspeed, LAMBDA m :
  With(setMag(dest, m), LAMBDA sized :
    applyForce(fish, limit(sized, fish.maxforce * FOLLOW_FORCE_MULTIPLIER))))))

\* seek(target)
seek(fish, target) ==
  With(normalizeMul(sub(target, fish.location), fish.maxspeed), LAMBDA desired :
    limit(sub(desired, fish.velocity), fish.maxforce))

\* The weight diff.normalize().div(d) gives a neighbour at distance d is 1 / d
\* along diff, that is diff / d^2; terms are carried at this precision.
SeparationPrecision == 100000

\* One term of the sum of separate(): zero for a neighbour not closer than
\* range (and for one at the same location, where normalize and div do nothing).
separateTerm(fish, neighbor, range) ==
  With(sub(fish.location, neighbor.location), LAMBDA diff :
    IF magLess(diff, range) /\ diff # Zero
      THEN With(diff.x * diff.x + diff.y * diff.y, LAMBDA dd :
             Vector(TruncDiv(diff.x * SeparationPrecision, dd),
                    TruncDiv(diff.y * SeparationPrecision, dd)))
      ELSE Zero)

RECURSIVE sumFrom(_, _, _)
sumFrom(terms, total0, k) ==
  With(total0, LAMBDA total :
    IF k > Len(terms) THEN total ELSE sumFrom(terms, add(total, terms[k]), k + 1))

\* The sum of a list of vectors.
sumOf(terms) == sumFrom(terms, Zero, 1)

\* separate(neighbors, range) without the test if (neighbors.length).
separate_Unguarded(fish, neighbors, range) ==
  With(sumOf([n \in 1..Len(neighbors) |-> separateTerm(fish, neighbors[n], range)]),
       LAMBDA total :
  With(normalizeMul(total, fish.maxspeed), LAMBDA desired :
    limit(sub(desired, fish.velocity), fish.maxforce)))

\* separate(neighbors, range)
separate(fish, neighbors, range) ==
  IF neighbors = <<>> THEN Zero
  ELSE With(sumOf([n \in 1..Len(neighbors) |-> separateTerm(fish, neighbors[n], range)]),
            LAMBDA total :
       With(normalizeMul(total, fish.maxspeed), LAMBDA desired :
         limit(sub(desired, fish.velocity), fish.maxforce)))

\* align(neighbors)
align(fish, neighbors) ==
  IF neighbors = <<>> THEN Zero
  ELSE With(sumOf([n \in 1..Len(neighbors) |-> neighbors[n].velocity]), LAMBDA total :
       With(normalizeMul(total, fish.maxspeed), LAMBDA desired :
         limit(sub(desired, fish.velocity), fish.maxspeed)))

\* cohesion(neighbors)
cohesion(fish, neighbors) ==
  IF neighbors = <<>> THEN Zero
  ELSE With(sumOf([n \in 1..Len(neighbors) |-> neighbors[n].location]), LAMBDA total :
         seek(fish, Vector(TruncDiv(total.x, Len(neighbors)),
                           TruncDiv(total.y, Len(neighbors)))))

\* shoal(neighbors)
shoal(fish, neighbors) ==
  With(scale(limit(separate(fish, neighbors, fish.separationRange), fish.maxforce),
             SEPARATION_WEIGHT), LAMBDA sep :
  With(scale(limit(align(fish, neighbors), fish.maxforce), ALIGNMENT_WEIGHT), LAMBDA ali :
  With(scale(limit(cohesion(fish, neighbors), fish.maxforce), COHESION_WEIGHT), LAMBDA cohe :
    applyForce(applyForce(applyForce(fish, sep), ali), cohe))))

\* avoid(creatures, dist), from position k of the list on
RECURSIVE avoidFrom(_, _, _, _)
avoidFrom(fish0, others, dist, k) ==
  With(fish0, LAMBDA fish :
    IF k > Len(others) THEN fish
    ELSE avoidFrom(IF distLess(fish.location, others[k].location, dist)
                     THEN applyForce(fish, mul(sub(others[k].location, fish.location),
                                               -WANDER_FORCE_MULTIPLIER))
                     ELSE fish,
                   others, dist, k + 1))

avoid(fish, others, dist) == avoidFrom(fish, others, dist, 1)

(***************************************************************************)
(* behavior-utils: categorizeFishByMass                                    *)
(***************************************************************************)
\* The comparison with >= in place of >.
isBigger_Inclusive(fish, neighbor, biggerThreshold) ==
  neighbor.mass * Scale >= fish.mass * biggerThreshold

\* neighbor.mass > fish.mass * biggerThreshold (thresholds in fixed point)
isBigger(fish, neighbor, biggerThreshold) ==
  neighbor.mass * Scale > fish.mass * biggerThreshold

\* neighbor.mass < fish.mass * smallerThreshold
isSmaller(fish, neighbor, smallerThreshold) ==
  neighbor.mass * Scale < fish.mass * smallerThreshold

\* The loop of categorizeFishByMass from neighbour k on; the lists hold the
\* positions of the neighbours in the list handed in.
RECURSIVE categorizeFrom(_, _, _, _, _)
categorizeFrom(fish, neighbors, biggerThreshold, smallerThreshold, k) ==
  IF k > Len(neighbors) THEN [bigger |-> <<>>, similar |-> <<>>, smaller |-> <<>>]
  ELSE LET rest == categorizeFrom(fish, neighbors, biggerThreshold, smallerThreshold, k + 1)
       IN  IF isBigger(fish, neighbors[k], biggerThreshold)
             THEN [rest EXCEPT !.bigger = <<k>> \o @]
           ELSE IF isSmaller(fish, neighbors[k], smallerThreshold)
             THEN [rest EXCEPT !.smaller = <<k>> \o @]
           ELSE [rest EXCEPT !.similar = <<k>> \o @]

categorizeFishByMass(fish, neighbors, biggerThreshold, smallerThreshold) ==
  categorizeFrom(fish, neighbors, biggerThreshold, smallerThreshold, 1)

(***************************************************************************)
(* SpatialGrid                                                             *)
(***************************************************************************)
cellSize == Px(SPATIAL_CELL_SIZE)

\* Mutant of getCellKey: the key is truncated, so negative coordinates share cell 0.
getCellKey_Trunc(x, y) == <<TruncDiv(x, cellSize), TruncDiv(y, cellSize)>>

\* getCellKey: Math.floor(x / cellSize), Math.floor(y / cellSize)
getCellKey(x, y) == <<x \div cellSize, y \div cellSize>>

\* clear(): this.cells.clear()
clearCells == [k \in {} |-> <<>>]

\* insert(fish): append the reference to the cell's bucket, created lazily.
insert(cs, fishes, i) ==
  LET key == getCellKey(fishes[i].location.x, fishes[i].location.y)
  IN  IF key \in DOMAIN cs
        THEN [cs EXCEPT ![key] = Append(@, i)]
        ELSE [k \in DOMAIN cs \cup {key} |-> IF k = key THEN <<i>> ELSE cs[k]]

RECURSIVE insertAll(_, _, _)
insertAll(cs, fishes, i) ==
  IF i > Len(fishes) THEN cs
  ELSE insertAll(insert(cs, fishes, i), fishes, i + 1)

\* clear() that leaves the buckets as they are.
clear_Keeping(cs) == cs

\* clear(): this.cells.clear(), on the map cs
clear(cs) == clearCells

\* updateGrid(fishes) on the map cs: clear() then insert every fish, in list order.
updateGrid(cs, fishes) == insertAll(clear(cs), fishes, 1)

\* Mutant of queryMax: the loop stops before the last cell (x < maxX).
queryMax_Exclusive(p, radius) == ((p + radius) \div cellSize) - 1

\* The upper cell bound of a query: Math.floor((position + radius) / cellSize).
queryMax(p, radius) == (p + radius) \div cellSize

\* The lower cell bound of a query: Math.floor((position - radius) / cellSize).
queryMin(p, radius) == (p - radius) \div cellSize

\* The fish of one cell that pass the distance test, in bucket order.
RECURSIVE queryCell(_, _, _, _, _)
queryCell(bucket, fishes, position, radius, k) ==
  IF k > Len(bucket) THEN <<>>
  ELSE (IF distWithin(position, fishes[bucket[k]].location, radius)
          THEN <<bucket[k]>> ELSE <<>>)
       \o queryCell(bucket, fishes, position, radius, k + 1)

\* The inner loop of query: y from minY to maxY for one column x.
RECURSIVE queryColumn(_, _, _, _, _, _, _)
queryColumn(cs, fishes, position, radius, x, y, maxY) ==
  IF y > maxY THEN <<>>
  ELSE (IF <<x, y>> \in DOMAIN cs
          THEN queryCell(cs[<<x, y>>], fishes, position, radius, 1)
          ELSE <<>>)
       \o queryColumn(cs, fishes, position, radius, x, y + 1, maxY)

\* The outer loop of query: x from minX to maxX.
RECURSIVE queryColumns(_, _, _, _, _, _)
queryColumns(cs, fishes, position, radius, x, maxX) ==
  IF x > maxX THEN <<>>
  ELSE queryColumn(cs, fishes, position, radius, x,
                   queryMin(position.y, radius), queryMax(position.y, radius))
       \o queryColumns(cs, fishes, position, radius, x + 1, maxX)

\* query(position, radius): the array of references returned.  The distance test
\* reads each fish's current location through the reference.
query(cs, fishes, position, radius) ==
  queryColumns(cs, fishes, position, radius,
               queryMin(position.x, radius), queryMax(position.x, radius))

(***************************************************************************)
(* Inputs of the grid specification: locations and radii, in fixed point.  *)
(***************************************************************************)
GridXs == {Px(-30), Px(0), Px(30), Px(100)}
GridYs == {Px(-40), Px(0)}
GridPoints == {Vector(x, y) : x \in GridXs, y \in GridYs}
GridRadii == {Px(0), Px(50), Px(100)}

RestVelocity == Vector(0, 0)

\* World of the grid specification: NumFish agents of mass 1, at rest, at grid points.
GridFish(i, p) == Fish(i - 1, Px(1), p.x, p.y, RestVelocity)

GridInit ==
  /\ \E locs \in [1..NumFish -> GridPoints] :
       creatures = [i \in 1..NumFish |-> GridFish(i, locs[i])]
  /\ cells = clearCells
  /\ gridState = "cleared"
  /\ NoCall
  /\ NoSim

\* timestep(): this.spatialGrid.updateGrid(this.world.creatures); args tells
\* whether the call repeats an updateGrid with no move in between.
GridUpdate ==
  /\ cells' = updateGrid(cells, creatures)
  /\ gridState' = "fresh"
  /\ args' = [op |-> "updateGrid", repeated |-> gridState = "fresh"]
  /\ UNCHANGED <<creatures, ret, simVars>>

\* SpatialGrid.resize(width, height): this.clear()
GridResize ==
  /\ cells' = clear(cells)
  /\ gridState' = "cleared"
  /\ args' = NoValue
  /\ UNCHANGED <<creatures, ret, simVars>>

\* An agent moves (location.add in Fish.update); the grid is not told.
GridMove ==
  \E i \in 1..NumFish, p \in GridPoints :
    /\ p # creatures[i].location
    /\ creatures' = [creatures EXCEPT ![i].location = p]
    /\ gridState' = IF gridState = "fresh" THEN "stale" ELSE gridState
    /\ args' = NoValue
    /\ UNCHANGED <<cells, ret, simVars>>

GridNext == GridUpdate \/ GridResize \/ GridMove

SpecGrid == GridInit /\ [][GridNext]_vars

(***************************************************************************)
(* Claims about SpatialGrid                                                *)
(***************************************************************************)
SeqToSet(s) == {s[k] : k \in 1..Len(s)}

\* The brute-force filter: every agent whose distance to p is at most r.
BruteForce(fishes, p, r) ==
  {i \in 1..Len(fishes) : distSq(fishes[i].location, p) <= r * r}

\* C1: immediately after updateGrid, with no agent moved since, query(p, r)
\* returns exactly the agents whose Euclidean distance to p is at most r,
\* for every position p and radius r >= 0.
C1_QueryEqualsBruteForce ==
  gridState = "fresh" =>
    \A p \in GridPoints, r \in GridRadii :
      SeqToSet(query(cells, creatures, p, r)) = BruteForce(creatures, p, r)

\* C1 witness: a fresh grid on which a query gathers agents of two different
\* cells, one of them exactly at the radius, and leaves another agent out.
C1_Witness ==
  /\ gridState = "fresh"
  /\ \E p \in GridPoints, r \in GridRadii, i, j \in 1..NumFish :
       /\ i # j
       /\ getCellKey(creatures[i].location.x, creatures[i].location.y)
            # getCellKey(p.x, p.y)
       /\ distSq(creatures[i].location, p) = r * r
       /\ r > 0
       /\ i \in SeqToSet(query(cells, creatures, p, r))
       /\ \E q \in GridPoints, k \in 1..NumFish :
            k \notin SeqToSet(query(cells, creatures, q, r))

\* The places <<cell key, position in the bucket>> that hold a reference to agent i.
Occurrences(cs, i) ==
  UNION {{<<k, n>> : n \in {m \in 1..Len(cs[k]) : cs[k][m] = i}} : k \in DOMAIN cs}

\* C2: immediately after updateGrid every agent is stored in exactly one
\* cell, the one keyed by the floor of its current location over cellSize.
C2_ExactlyOneCell ==
  gridState = "fresh" =>
    \A i \in 1..Len(creatures) :
      \E k \in DOMAIN cells : \E n \in 1..Len(cells[k]) :
        /\ cells[k][n] = i
        /\ Occurrences(cells, i) = {<<k, n>>}
        /\ k[1] * cellSize <= creatures[i].location.x
        /\ creatures[i].location.x < (k[1] + 1) * cellSize
        /\ k[2] * cellSize <= creatures[i].location.y
        /\ creatures[i].location.y < (k[2] + 1) * cellSize

\* C2 witness: a fresh grid with an agent at negative coordinates (cell -1,-1)
\* and an agent exactly on a cell edge (x = cellSize, cell 1).
C2_Witness ==
  /\ gridState = "fresh"
  /\ \E i, j \in 1..NumFish :
       /\ creatures[i].location = Vector(Px(-30), Px(-40))
       /\ creatures[j].location.x = cellSize
       /\ <<-1, -1>> \in DOMAIN cells
       /\ \E y \in {-1, 0} : <<1, y>> \in DOMAIN cells

(***************************************************************************)
(* categorizeFishByMass called on its own                                  *)
(***************************************************************************)
\* Masses initFish can draw (0.5 + r^4 * 2, in [0.5, 2.5)), with pairs in the
\* ratios 2 and 0.5 and pairs just off them.
Masses == {50, 60, 100, 101, 120, 200, 249}

NeighborLists ==
  UNION {[1..n -> Masses] : n \in 0..MaxNeighbors}

CatInit ==
  /\ NoWorld
  /\ NoSim
  /\ \E m \in Masses, ms \in NeighborLists :
       args = [op |-> "categorizeFishByMass",
               fish |-> Fish(0, m, 0, 0, RestVelocity),
               neighbors |-> [k \in 1..Len(ms) |-> Fish(k, ms[k], 0, 0, RestVelocity)]]
  /\ ret = NoValue

\* Simulation.timestep: categorizeFishByMass(fish, neighbors,
\* MASS_THRESHOLD_BIGGER, MASS_THRESHOLD_SMALLER)
Categorize ==
  /\ args.op = "categorizeFishByMass"
  /\ ret.op = "none"
  /\ ret' = [op |-> "categorizeFishByMass",
             value |-> categorizeFishByMass(args.fish, args.neighbors,
                                            Px(MASS_THRESHOLD_BIGGER), MASS_THRESHOLD_SMALLER)]
  /\ UNCHANGED <<gridVars, args, simVars>>

CatNext == Categorize

SpecCat == CatInit /\ [][CatNext]_vars

(***************************************************************************)
(* Fish.update called on its own                                           *)
(***************************************************************************)
\* The canvas: 800 x 600 pixels.
WorldSize == [width |-> Px(800), height |-> Px(600)]

UpdateMasses == {50, 100, 200}
UpdateVelocities ==
  {Vector(0, 0), Vector(Px(2), 0), Vector(Px(3), Px(4)), Vector(0, -Px(12)), Vector(Px(24), Px(7))}
UpdateAccelerations ==
  {Vector(0, 0), Vector(-Px(2), 0), Vector(Px(1), 0), Vector(Px(900), -Px(1200))}
UpdateLocations ==
  {Vector(Px(100), Px(100)), Vector(-Px(251), Px(100)), Vector(Px(400), Px(851))}

UpdateInit ==
  /\ NoWorld
  /\ NoSim
  /\ \E m \in UpdateMasses, v \in UpdateVelocities, a \in UpdateAccelerations,
        l \in UpdateLocations, w \in BOOLEAN :
       args = [op |-> "update",
               fish |-> [Fish(0, m, l.x, l.y, v) EXCEPT !.acceleration = a, !.hasWorld = w]]
  /\ ret = NoValue

\* fish.update()
Update ==
  /\ args.op = "update"
  /\ ret.op = "none"
  /\ \E rnd \in RandomDraws :
       ret' = [op |-> "update", value |-> update(args.fish, WorldSize, rnd)]
  /\ UNCHANGED <<gridVars, args, simVars>>

UpdateNext == Update

SpecUpdate == UpdateInit /\ [][UpdateNext]_vars

(***************************************************************************)
(* models/Fish.ts: one call of boundaries(world)                           *)
(***************************************************************************)
\* this.maxforce * BOUNDARY_FORCE_MULTIPLIER * (1 + distanceFactor), where
\* distanceFactor = Math.max(0, depth / BOUNDARY_DISTANCE)
forceMagnitude(fish, depth) ==
  FixMul(fish.maxforce * BOUNDARY_FORCE_MULTIPLIER,
         Scale + Max(0, TruncDiv(depth * Scale, Px(BOUNDARY_DISTANCE))))

\* One of the four edge tests of boundaries(): near says the fish is within
\* BOUNDARY_DISTANCE of the edge, past that it is at or beyond it, force is the
\* push away from the edge and speed the reflected velocity component.
edge(st, near, past, force, speed) ==
  IF ~near THEN st
  ELSE With(applyForce(st.fish, force), LAMBDA pushed :
         IF past THEN [fish |-> [pushed EXCEPT !.velocity = speed], needsBounce |-> TRUE]
         ELSE [st EXCEPT !.fish = pushed])

\* The last step of boundaries(): a fish that bounced is put at least one pixel
\* inside, Math.max(1, Math.min(world.width - 1, x)).
inside(st, world) ==
  IF st.needsBounce
    THEN [st.fish EXCEPT
            !.location.x = Max(Px(1), Min(world.width - Px(1), @)),
            !.location.y = Max(Px(1), Min(world.height - Px(1), @))]
    ELSE st.fish

\* boundaries(world) bouncing only a fish strictly beyond an edge.
boundariesBouncing_Beyond(fish, world) ==
  With(fish.location, LAMBDA l :
  With(Px(BOUNDARY_DISTANCE), LAMBDA d :
  With(edge([fish |-> [fish EXCEPT !.hasWorld = TRUE], needsBounce |-> FALSE],
            l.x <= d, l.x < 0,
            Vector(forceMagnitude(fish, d - l.x), 0),
            Vector(Abs(fish.velocity.x) \div 2, fish.velocity.y)), LAMBDA left :
  With(edge(left, l.x >= world.width - d, l.x > world.width,
            Vector(0 - forceMagnitude(fish, l.x - (world.width - d)), 0),
            Vector(0 - (Abs(left.fish.velocity.x) \div 2), left.fish.velocity.y)),
       LAMBDA right :
  With(edge(right, l.y <= d, l.y < 0,
            Vector(0, forceMagnitude(fish, d - l.y)),
            Vector(right.fish.velocity.x, Abs(right.fish.velocity.y) \div 2)), LAMBDA top :
  With(edge(top, l.y >= world.height - d, l.y > world.height,
            Vector(0, 0 - forceMagnitude(fish, l.y - (world.height - d))),
            Vector(top.fish.velocity.x, 0 - (Abs(top.fish.velocity.y) \div 2))),
       LAMBDA bottom :
    inside(bottom, world)))))))

\* boundaries(world) of models/Fish.ts: the world is stored, each edge within
\* BOUNDARY_DISTANCE pushes the fish away, an edge reached or crossed reflects
\* and halves the velocity component, and a fish that bounced is put inside.
boundariesBouncing(fish, world) ==
  With(fish.location, LAMBDA l :
  With(Px(BOUNDARY_DISTANCE), LAMBDA d :
  With(edge([fish |-> [fish EXCEPT !.hasWorld = TRUE], needsBounce |-> FALSE],
            l.x <= d, l.x <= 0,
            Vector(forceMagnitude(fish, d - l.x), 0),
            Vector(Abs(fish.velocity.x) \div 2, fish.velocity.y)), LAMBDA left :
  With(edge(left, l.x >= world.width - d, l.x >= world.width,
            Vector(0 - forceMagnitude(fish, l.x - (world.width - d)), 0),
            Vector(0 - (Abs(left.fish.velocity.x) \div 2), left.fish.velocity.y)),
       LAMBDA right :
  With(edge(right, l.y <= d, l.y <= 0,
            Vector(0, forceMagnitude(fish, d - l.y)),
            Vector(right.fish.velocity.x, Abs(right.fish.velocity.y) \div 2)), LAMBDA top :
  With(edge(top, l.y >= world.height - d, l.y >= world.height,
            Vector(0, 0 - forceMagnitude(fish, l.y - (world.height - d))),
            Vector(top.fish.velocity.x, 0 - (Abs(top.fish.velocity.y) \div 2))),
       LAMBDA bottom :
    inside(bottom, world)))))))

\* Worlds (a canvas not laid out is 0 by 0), and where the fish is and heads
\* when boundaries() is called: inside, on an edge, or past one.
BounceWorlds ==
  {[width |-> Px(w), height |-> Px(h)] : w \in {0, 1, 60, 800}, h \in {0, 1, 600}}
BounceXs == {0 - Px(30), 0, Scale \div 2, Px(25), Px(400), Px(800), Px(830)}
BounceYs == {0 - Px(5), 0, Px(300), Px(600), Px(640)}
BounceVelocities == {Vector(Px(3), 0 - Px(2)), Vector(0 - Px(3), Px(2))}

BounceInit ==
  /\ NoWorld
  /\ NoSim
  /\ \E world \in BounceWorlds, x \in BounceXs, y \in BounceYs, v \in BounceVelocities :
       args = [op |-> "boundaries", fish |-> Fish(0, 100, x, y, v), world |-> world]
  /\ ret = NoValue

\* fish.boundaries(world)
Bounce ==
  /\ ret.op = "none"
  /\ ret' = [op |-> "boundaries", value |-> boundariesBouncing(args.fish, args.world)]
  /\ UNCHANGED <<gridVars, args, simVars>>

BounceNext == Bounce

SpecBounce == BounceInit /\ [][BounceNext]_vars

(***************************************************************************)
(* Fish.ts: the behaviours as calls                                        *)
(***************************************************************************)
\* How often a behaviour runs sum.div(neighbors.length): once in separate,
\* align and cohesion, inside if (neighbors.length), hence three times in
\* shoal; avoid and chase do not divide by the count.
countDivisions(op, neighbors) ==
  IF neighbors = <<>> THEN 0
  ELSE CASE op \in {"separate", "align", "cohesion"} -> 1
         [] op = "shoal" -> 3
         [] OTHER -> 0

\* The call this.op(neighbors): the fish afterwards for shoal, avoid and chase,
\* the vector returned for separate, align and cohesion.
behaviour(op, fish, neighbors) ==
  CASE op = "shoal" -> shoal(fish, neighbors)
    [] op = "avoid" -> avoid(fish, neighbors, Px(AVOID_RANGE))
    [] op = "chase" -> chase(fish, neighbors)
    [] op = "separate" -> separate(fish, neighbors, fish.separationRange)
    [] op = "align" -> align(fish, neighbors)
    [] op = "cohesion" -> cohesion(fish, neighbors)

BehaviourOps == {"shoal", "avoid", "chase", "separate", "align", "cohesion"}
BehaviourMasses == {50, 100}
BehaviourVelocities == {Vector(Px(3), 0), Vector(0, 0 - Px(2))}
BehaviourAccelerations == {Vector(0, 0), Vector(10, 0 - 5)}
Neighbour(k) == Fish(k, 100, Px(100 + 10 * k), Px(100), Vector(0, Px(3)))
BehaviourNeighbours ==
  {<<>>, <<Neighbour(1)>>, <<Neighbour(2)>>, <<Neighbour(1), Neighbour(2)>>}

BehaviourInit ==
  /\ NoWorld
  /\ NoSim
  /\ \E op \in BehaviourOps, m \in BehaviourMasses, v \in BehaviourVelocities,
        a \in BehaviourAccelerations, ns \in BehaviourNeighbours :
       args = [op |-> op, neighbors |-> ns,
               fish |-> [Fish(0, m, Px(100), Px(100), v) EXCEPT !.acceleration = a]]
  /\ ret = NoValue

\* fish.shoal(neighbors), fish.avoid(neighbors, AVOID_RANGE), ...
Behave ==
  /\ ret.op = "none"
  /\ ret' = [op |-> args.op,
             value |-> behaviour(args.op, args.fish, args.neighbors),
             divisions |-> countDivisions(args.op, args.neighbors)]
  /\ UNCHANGED <<gridVars, args, simVars>>

BehaviourNext == Behave

SpecBehaviour == BehaviourInit /\ [][BehaviourNext]_vars

(***************************************************************************)
(* Fish.ts: one call of filterVisibleNeighbors with the configured angle   *)
(***************************************************************************)
\* The headings of the fish and the offsets of its neighbour: the eight
\* compass directions and the zero vector.
ConeDirections == {Vector(a, b) : a \in {0 - Px(1), 0, Px(1)}, b \in {0 - Px(1), 0, Px(1)}}

\* What spatialGrid.query can hand over for a world of two fish: the fish itself
\* is always among the nearby fish, the other one may be.
ConeNearby == {<<1>>, <<1, 2>>, <<2, 1>>}

ConeInit ==
  /\ \E v \in ConeDirections, d \in ConeDirections :
       creatures = << Fish(0, 100, Px(100), Px(100), v),
                      Fish(1, 100, Px(100) + d.x, Px(100) + d.y, Vector(0, Px(3))) >>
  /\ cells = clearCells
  /\ gridState = "cleared"
  /\ \E nearby \in ConeNearby :
       args = [op |-> "filterVisibleNeighbors", nearbyFish |-> nearby]
  /\ ret = NoValue
  /\ NoSim

\* fish.filterVisibleNeighbors(nearbyFish, MATH.FULL_CIRCLE) on the first fish
Filter ==
  /\ ret.op = "none"
  /\ ret' = [op |-> args.op,
             value |-> filterVisibleNeighbors(creatures, 1, args.nearbyFish)]
  /\ UNCHANGED <<gridVars, args, simVars>>

ConeNext == Filter

SpecCone == ConeInit /\ [][ConeNext]_vars

(***************************************************************************)
(* Vector.limit as a call                                                  *)
(***************************************************************************)
\* Components and limits (fixed point) limit is called with; (3, 4), (-3, 4)
\* and (0, 5) have magnitude exactly 5.
LimitComponents == {0 - Px(24), 0 - Px(3), 0, 7, Px(4), Px(5), Px(12)}
LimitBounds == {Scale \div 2, Px(5), Px(13)}

LimitInit ==
  /\ NoWorld
  /\ NoSim
  /\ \E x \in LimitComponents, y \in LimitComponents, l \in LimitBounds :
       args = [op |-> "limit", this |-> Vector(x, y), l |-> l]
  /\ ret = NoValue

\* this.limit(l)
Limit ==
  /\ args.op = "limit"
  /\ ret.op = "none"
  /\ ret' = [op |-> "limit", value |-> limit(args.this, args.l)]
  /\ UNCHANGED <<gridVars, args, simVars>>

LimitNext == Limit

SpecLimit == LimitInit /\ [][LimitNext]_vars

(***************************************************************************)
(* Vector.div as a call                                                    *)
(***************************************************************************)
\* div(s) that throws on a zero divisor, as its doc comment has it.
div_Throwing(v, s) ==
  IF s = 0
    THEN [thrown |-> TRUE, warned |-> FALSE, returned |-> "nothing", this |-> v]
    ELSE [thrown |-> FALSE, warned |-> FALSE, returned |-> "this",
          this |-> Vector(FixDiv(v.x, s), FixDiv(v.y, s))]

\* v.div(s), s in fixed point: whether it threw, whether it logged the
\* warning, what it returned and the components of v afterwards.
div(v, s) ==
  IF s = 0
    THEN [thrown |-> FALSE, warned |-> TRUE, returned |-> "this", this |-> v]
    ELSE [thrown |-> FALSE, warned |-> FALSE, returned |-> "this",
          this |-> Vector(FixDiv(v.x, s), FixDiv(v.y, s))]

\* Components and scalars (fixed point) div is called with.
DivComponents == {0 - Px(3), 0, 7, Px(1), Px(4)}
DivScalars == {0, Scale \div 2, Px(1), Px(2), 0 - Px(2)}

DivInit ==
  /\ NoWorld
  /\ NoSim
  /\ \E x \in DivComponents, y \in DivComponents, s \in DivScalars :
       args = [op |-> "div", this |-> Vector(x, y), s |-> s]
  /\ ret = NoValue

\* this.div(s)
Div ==
  /\ args.op = "div"
  /\ ret.op = "none"
  /\ ret' = [op |-> "div", value |-> div(args.this, args.s)]
  /\ UNCHANGED <<gridVars, args, simVars>>

DivNext == Div

SpecDiv == DivInit /\ [][DivNext]_vars

(***************************************************************************)
(* Simulation.ts: timers, slow motion and event listeners                  *)
(***************************************************************************)
\* The handlers bound in the constructor, with the target and event type
\* setupEventListeners registers each on.
Handlers ==
  { <<"window", "mousemove", "boundMouseMoveHandler">>,
    <<"window", "mousedown", "boundMouseDownHandler">>,
    <<"window", "mouseup", "boundMouseUpHandler">>,
    <<"window", "keydown", "boundKeyDownHandler">>,
    <<"window", "keyup", "boundKeyUpHandler">>,
    <<"body", "touchstart", "boundTouchStartHandler">>,
    <<"body", "touchmove", "boundTouchMoveHandler">>,
    <<"body", "touchend", "boundTouchEndHandler">>,
    <<"window", "resize", "boundResizeHandler">> }

\* A state of the instance and the page while a method runs; ticks counts the
\* runs of timestep().
Running(s, b) == [sim |-> s, browser |-> b, ticks |-> 0]

\* window.setInterval returns an id no active timer has.
newTimerId(b) ==
  CHOOSE n \in 1..(Cardinality(b.intervals) + 1) :
    n \notin b.intervals /\ \A m \in 1..(n - 1) : m \in b.intervals

\* clearInterval left out: the handle is forgotten, the timer keeps running
clearTimeline_Forget(st) == [st EXCEPT !.sim.timeline = 0]

\* if (this.timeline) { clearInterval(this.timeline); this.timeline = null }
clearTimeline(st) ==
  IF st.sim.timeline # 0
    THEN [st EXCEPT !.browser.intervals = @ \ {st.sim.timeline}, !.sim.timeline = 0]
    ELSE st

\* this.timeline = window.setInterval(() => this.timestep(), this.interval)
setTimeline(st) ==
  LET id == newTimerId(st.browser)
  IN  [st EXCEPT !.browser.intervals = @ \cup {id}, !.sim.timeline = id]

\* this.timestep(), as far as the timers see it
timestepRuns(st) == [st EXCEPT !.ticks = @ + 1]

\* Simulation.slow()
slow(st0) ==
  LET st == clearTimeline(st0)
  IN  IF st.sim.interval < SLOW_INTERVAL
        THEN [timestepRuns(st) EXCEPT !.sim.alpha = @ - ALPHA_STEP,
                                      !.browser.timeouts.slow = @ + 1,
                                      !.sim.interval = @ + 1]
        ELSE setTimeline(st)

\* fast() that still steps down when the interval is NORMAL_INTERVAL.
fast_OneTooFar(st0) ==
  LET st == clearTimeline(st0)
  IN  IF st.sim.interval >= NORMAL_INTERVAL
        THEN [timestepRuns(st) EXCEPT !.sim.alpha = @ + ALPHA_STEP,
                                      !.browser.timeouts.fast = @ + 1,
                                      !.sim.interval = @ - 1]
        ELSE setTimeline([st EXCEPT !.sim.alpha = DEFAULT_ALPHA])

\* Simulation.fast()
fast(st0) ==
  LET st == clearTimeline(st0)
  IN  IF st.sim.interval > NORMAL_INTERVAL
        THEN [timestepRuns(st) EXCEPT !.sim.alpha = @ + ALPHA_STEP,
                                      !.browser.timeouts.fast = @ + 1,
                                      !.sim.interval = @ - 1]
        ELSE setTimeline([st EXCEPT !.sim.alpha = DEFAULT_ALPHA])

\* Simulation.start(): this.timestep(); this.fast()
start(st) == fast(timestepRuns(st))

\* Simulation.stop()
stop(st) == clearTimeline(st)

\* Simulation.setupEventListeners()
setupEventListeners(st) == [st EXCEPT !.browser.listeners = @ \cup Handlers]

\* Simulation.cleanup(): stop(), then removeEventListener for each handler
cleanup(st) == [stop(st) EXCEPT !.browser.listeners = @ \ Handlers]

\* Simulation.handleKeyUp for the space key
handleKeyUp(st) ==
  LET moved == IF st.sim.slowmo THEN fast(st) ELSE slow(st)
  IN  [moved EXCEPT !.sim.slowmo = ~st.sim.slowmo]

\* The state after new Simulation(options): listeners set up, first frame
\* drawn, start() called with interval NORMAL_INTERVAL.
constructed ==
  start(setupEventListeners(Running(
    [interval |-> NORMAL_INTERVAL, alpha |-> DEFAULT_ALPHA, slowmo |-> FALSE, timeline |-> 0],
    [intervals |-> {}, timeouts |-> [slow |-> 0, fast |-> 0], listeners |-> {}])))

pending == browser.timeouts.slow + browser.timeouts.fast

\* The step that runs a method, st being its result; by names what invoked it
\* ("key", "timeout", "interval", "frame", "cleanup" or "call"), stopped tells whether stop() is in
\* force afterwards and keys how many releases of the space key were handled.
Becomes(st, by, stopped, keys) ==
  /\ sim' = st.sim
  /\ browser' = st.browser
  /\ trace' = [ticks |-> st.ticks, by |-> by, stopped |-> stopped, keys |-> keys]
  /\ UNCHANGED <<gridVars, callVars>>

TimerInit ==
  /\ NoWorld
  /\ NoCall
  /\ sim = constructed.sim
  /\ browser = constructed.browser
  /\ trace = [ticks |-> 0, by |-> "call", stopped |-> FALSE, keys |-> 0]

\* keyup of the space key, delivered while the handler is registered
KeyUp ==
  /\ <<"window", "keyup", "boundKeyUpHandler">> \in browser.listeners
  /\ trace.keys < MaxKeys
  /\ pending < MaxPending
  /\ Becomes(handleKeyUp(Running(sim, browser)), "key", trace.stopped, trace.keys + 1)

\* A pending setTimeout(() => this.slow(), ...) fires
TimeoutSlow ==
  /\ browser.timeouts.slow > 0
  /\ Becomes(slow(Running(sim, [browser EXCEPT !.timeouts.slow = @ - 1])), "timeout",
             trace.stopped, trace.keys)

\* A pending setTimeout(() => this.fast(), ...) fires
TimeoutFast ==
  /\ browser.timeouts.fast > 0
  /\ Becomes(fast(Running(sim, [browser EXCEPT !.timeouts.fast = @ - 1])), "timeout",
             trace.stopped, trace.keys)

\* An active setInterval timer fires: this.timestep()
IntervalTick ==
  /\ browser.intervals # {}
  /\ Becomes(timestepRuns(Running(sim, browser)), "interval", trace.stopped, trace.keys)

\* simulation.stop()
Stop ==
  /\ ~trace.stopped
  /\ Becomes(stop(Running(sim, browser)), "call", TRUE, trace.keys)

\* simulation.start()
Start ==
  /\ pending < MaxPending
  /\ Becomes(start(Running(sim, browser)), "call", FALSE, trace.keys)

\* simulation.cleanup(), which the component calls on unmount
Cleanup ==
  /\ browser.listeners # {}
  /\ Becomes(cleanup(Running(sim, browser)), "cleanup", TRUE, trace.keys)

TimerNext ==
  \/ KeyUp
  \/ TimeoutSlow
  \/ TimeoutFast
  \/ IntervalTick
  \/ Stop
  \/ Start
  \/ Cleanup

SpecTimer == TimerInit /\ [][TimerNext]_vars

(***************************************************************************)
(* Simulation.ts: releases of the space key and the transition timeouts    *)
(***************************************************************************)
\* The instance after construction; only the keyboard and the timers act.
KeysInit == TimerInit

KeysNext ==
  \/ KeyUp
  \/ TimeoutSlow
  \/ TimeoutFast
  \/ IntervalTick

\* A pending timeout fires in the end, and so does the repeating timer.
SpecKeys ==
  /\ KeysInit
  /\ [][KeysNext]_vars
  /\ WF_vars(TimeoutSlow)
  /\ WF_vars(TimeoutFast)
  /\ WF_vars(IntervalTick)

(***************************************************************************)
(* Simulation.ts and event-utils.ts: mouse and touch handlers              *)
(***************************************************************************)
\* isQuickInteraction(startTime, threshold) with Date.now() = now; null is 0.
isQuickInteraction(startTime, threshold, now) ==
  IF startTime = 0 THEN FALSE ELSE now - startTime < threshold

\* shouldIgnoreMouseAfterTouch(isTouchDevice, lastTouchTime, preventionTimeout)
\* with Date.now() = now
shouldIgnoreMouseAfterTouch(isTouchDevice, lastTouchTime, preventionTimeout, now) ==
  isTouchDevice /\ now - lastTouchTime < preventionTimeout

ignoresMouse(s, now) ==
  shouldIgnoreMouseAfterTouch(s.isTouchDevice, s.lastTouchTime,
                              TOUCH_MOUSE_PREVENTION_TIMEOUT, now)

\* handleMouseMove(e) with e at the point at
handleMouseMove(s, at, now) == IF ignoresMouse(s, now) THEN s ELSE [s EXCEPT !.mouse = at]

\* handleMouseDown()
handleMouseDown(s, now) ==
  IF ignoresMouse(s, now) THEN s ELSE [s EXCEPT !.follow = TRUE, !.mouseDownTime = now]

\* handleMouseUp()
handleMouseUp(s, now) ==
  IF ignoresMouse(s, now) THEN s
  ELSE [s EXCEPT !.follow = FALSE,
                 !.showBehavior = IF isQuickInteraction(s.mouseDownTime, CLICK_THRESHOLD, now)
                                    THEN ~@ ELSE @,
                 !.mouseDownTime = 0]

\* handleTouchStart(e) with e.changedTouches[0] at the point at
handleTouchStart(s, at, now) ==
  [s EXCEPT !.isTouchDevice = TRUE, !.lastTouchTime = now, !.follow = TRUE,
            !.mouseDownTime = now, !.mouse = at]

\* handleTouchMove(e)
handleTouchMove(s, at, now) == [s EXCEPT !.lastTouchTime = now, !.mouse = at]

\* handleTouchEnd(e) with e.changedTouches.length = changed
handleTouchEnd(s, changed, now) ==
  LET tapped == IF isQuickInteraction(s.mouseDownTime, CLICK_THRESHOLD, now)
                  THEN ~s.showBehavior ELSE s.showBehavior
  IN  [s EXCEPT !.lastTouchTime = now, !.follow = FALSE, !.mouseDownTime = 0,
                !.showBehavior = IF changed >= 2 THEN ~tapped ELSE tapped]

\* Date.now() when the listeners are registered, the steps of the clock
\* between events, and where the pointer can be.
InputStart == 1000
InputDelays == {200, 300}
InputPoints == {Vector(Px(200), Px(150)), Vector(Px(20), Px(400))}

\* The pointer fields after construction; browser.touches counts the fingers on
\* the screen, and a finger may already be down when the listeners are registered.
InputInit ==
  /\ NoWorld
  /\ NoCall
  /\ sim = [mouse |-> Vector(0, 0), follow |-> FALSE, mouseDownTime |-> 0,
            showBehavior |-> FALSE, isTouchDevice |-> FALSE, lastTouchTime |-> 0]
  /\ \E down \in 0..1 : browser = [clock |-> InputStart, touches |-> down]
  /\ trace = [by |-> "call", changed |-> 0]

\* Time passes between two events
InputWait ==
  \E dt \in InputDelays :
    /\ browser.clock + dt <= MaxInputTime
    /\ browser' = [browser EXCEPT !.clock = @ + dt]
    /\ trace' = [by |-> "wait", changed |-> 0]
    /\ UNCHANGED <<gridVars, callVars, sim>>

\* The step that delivers an event to its handler, s being the fields afterwards.
Handled(s, by, changed, touches) ==
  /\ sim' = s
  /\ browser' = [browser EXCEPT !.touches = touches]
  /\ trace' = [by |-> by, changed |-> changed]
  /\ UNCHANGED <<gridVars, callVars>>

MouseMove ==
  \E at \in InputPoints, now \in {browser.clock} :
    Handled(handleMouseMove(sim, at, now), "mousemove", 0, browser.touches)

MouseDown ==
  \E now \in {browser.clock} :
    Handled(handleMouseDown(sim, now), "mousedown", 0, browser.touches)

MouseUp ==
  \E now \in {browser.clock} :
    Handled(handleMouseUp(sim, now), "mouseup", 0, browser.touches)

\* One or two fingers come down
TouchStart ==
  \E at \in InputPoints, changed \in 1..2 :
    /\ browser.touches + changed <= 2
    /\ Handled(handleTouchStart(sim, at, browser.clock), "touchstart", changed,
               browser.touches + changed)

TouchMove ==
  \E at \in InputPoints :
    /\ browser.touches > 0
    /\ Handled(handleTouchMove(sim, at, browser.clock), "touchmove", 1, browser.touches)

\* One or two fingers are lifted
TouchEnd ==
  \E changed \in 1..2 :
    /\ changed <= browser.touches
    /\ Handled(handleTouchEnd(sim, changed, browser.clock), "touchend", changed,
               browser.touches - changed)

InputNext ==
  \/ InputWait
  \/ MouseMove
  \/ MouseDown
  \/ MouseUp
  \/ TouchStart
  \/ TouchMove
  \/ TouchEnd

SpecInput == InputInit /\ [][InputNext]_vars

(***************************************************************************)
(* Simulation, requestAnimationFrame revision: frames, adaptive quality,   *)
(* event listeners                                                         *)
(***************************************************************************)
\* Fish counts are carried in twelfths of a fish: (width / 600) * 50 is
\* width / 12.
FishUnit == 12


\* Math.round of the quotient a / b of positive numbers.
roundDiv(a, b) == (2 * a + b) \div (2 * b)

\* The quotient a / b rounded up: the number of passes of for (i = 0; i < a / b; i++).
ceilDiv(a, b) == (a + b - 1) \div b

\* A state of the instance, the page and world.creatures while a method runs;
\* log lists, in order, what the method did to world.creatures ("replace" for an
\* assignment, "push" for the pushes of one addFish or initFish loop) and where
\* the loop of timestep() over it began ("loop") and ended ("end").
RunningRaf(s, b, cs) ==
  [sim |-> s, browser |-> b, creatures |-> cs, ticks |-> 0, log |-> <<>>]

\* new Fish(mass, x, y) as the quality code sees it: the id drawn from Fish.uid
\* and the detail level.
SpawnedFish(id) == [ID |-> id, detailLevel |-> 3]

\* Math.min(Math.max((scaledWidth / 600) * 50, MIN_FISH), MAX_FISH) with
\* devicePixelRatio 1, in twelfths.
idealFishCount(width) == Min(Max(width, MIN_FISH * FishUnit), MAX_FISH * FishUnit)

\* addFish(count) with a Fish.uid that does not advance.
addFish_Reusing(st, count) ==
  LET n == IF count > 0 THEN ceilDiv(count, FishUnit) ELSE 0
  IN  [st EXCEPT !.creatures = @ \o [i \in 1..n |-> SpawnedFish(st.sim.uid + i - 1)],
                 !.log = IF n > 0 THEN Append(@, "push") ELSE @]

\* addFish(count) with a loop that stops one pass early when count is fractional.
addFish_Whole(st, count) ==
  LET n == IF count > 0 THEN count \div FishUnit ELSE 0
  IN  [st EXCEPT !.creatures = @ \o [i \in 1..n |-> SpawnedFish(st.sim.uid + i - 1)],
                 !.sim.uid = @ + n,
                 !.log = IF n > 0 THEN Append(@, "push") ELSE @]

\* addFish(count): for (i = 0; i < count; i++) creatures.push(new Fish(...))
addFish(st, count) ==
  LET n == IF count > 0 THEN ceilDiv(count, FishUnit) ELSE 0
  IN  [st EXCEPT !.creatures = @ \o [i \in 1..n |-> SpawnedFish(st.sim.uid + i - 1)],
                 !.sim.uid = @ + n,
                 !.log = IF n > 0 THEN Append(@, "push") ELSE @]

\* initFish(numFish): numFish || Math.min(Math.max(...), Math.min((canvas.width /
\* 600) * 50, MAX_FISH)) fish; numFish in twelfths, 0 when the option is absent
initFish(st, numFish) ==
  LET fishCount == IF numFish # 0 THEN numFish
                   ELSE Min(Max(st.sim.canvasWidth, MIN_FISH * FishUnit),
                            Min(st.sim.canvasWidth, MAX_FISH * FishUnit))
  IN  addFish([st EXCEPT !.creatures = <<>>, !.log = Append(@, "replace")], fishCount)

\* applyQualitySettings() without the slice that removes the excess fish.
applyQualitySettings_NoSlice(st0) ==
  LET settings == st0.sim.qualityLevels[st0.sim.currentQuality]
  IN  [st0 EXCEPT !.creatures =
         [i \in 1..Len(st0.creatures) |->
            [st0.creatures[i] EXCEPT !.detailLevel = settings.detailLevel]]]

\* applyQualitySettings()
applyQualitySettings(st0) ==
  LET st == IF st0.sim.currentQuality = "high"
              THEN [st0 EXCEPT !.sim.qualityLevels.high.fishMax =
                                 Min(idealFishCount(st0.sim.canvasWidth), MAX_FISH * FishUnit)]
              ELSE st0
      settings == st.sim.qualityLevels[st.sim.currentQuality]
      currentFishCount == Len(st.creatures)
      targetFishCount == settings.fishMax
      resized ==
        IF currentFishCount * FishUnit > targetFishCount
          THEN [st EXCEPT !.creatures = SubSeq(@, 1, targetFishCount \div FishUnit),
                          !.log = Append(@, "replace")]
        ELSE IF currentFishCount * FishUnit < targetFishCount
          THEN addFish(st, targetFishCount - currentFishCount * FishUnit)
        ELSE st
  IN  [resized EXCEPT !.creatures =
         [i \in 1..Len(resized.creatures) |->
            [resized.creatures[i] EXCEPT !.detailLevel = settings.detailLevel]]]

RECURSIVE sum(_)
sum(xs) == IF xs = <<>> THEN 0 ELSE Head(xs) + sum(Tail(xs))

\* The tier updateAdaptiveQuality moves to for a full window of samples (the
\* average compared on the sum).
nextQuality(fpsHistory, currentQuality) ==
  LET total == sum(fpsHistory)
      n == Len(fpsHistory)
  IN  IF total < fpsThresholdLow * n /\ currentQuality # "low" THEN "low"
      ELSE IF total >= fpsThresholdLow * n /\ total < fpsThresholdMedium * n
              /\ currentQuality # "medium" THEN "medium"
      ELSE IF total >= fpsThresholdMedium * n /\ currentQuality # "high" THEN "high"
      ELSE currentQuality

\* updateAdaptiveQuality() deciding on the samples it has, however few.
updateAdaptiveQuality_Eager(st) ==
  LET pushed == Append(st.sim.fpsHistory, st.sim.fps)
      history == IF Len(pushed) > fpsHistorySize THEN Tail(pushed) ELSE pushed
      sampled == [st EXCEPT !.sim.fpsHistory = history]
      quality == nextQuality(history, st.sim.currentQuality)
      moved == [sampled EXCEPT !.sim.currentQuality = quality]
      high == IF quality = "high" /\ st.sim.currentQuality # "high"
                THEN [moved EXCEPT !.sim.qualityLevels.high.fishMax =
                        Min(idealFishCount(st.sim.canvasWidth), MAX_FISH * FishUnit)]
                ELSE moved
  IN  IF quality # st.sim.currentQuality THEN applyQualitySettings(high) ELSE high

\* updateAdaptiveQuality()
updateAdaptiveQuality(st) ==
  LET pushed == Append(st.sim.fpsHistory, st.sim.fps)
      history == IF Len(pushed) > fpsHistorySize THEN Tail(pushed) ELSE pushed
      sampled == [st EXCEPT !.sim.fpsHistory = history]
  IN  IF Len(history) < fpsHistorySize THEN sampled
      ELSE LET quality == nextQuality(history, st.sim.currentQuality)
               moved == [sampled EXCEPT !.sim.currentQuality = quality]
               high == IF quality = "high" /\ st.sim.currentQuality # "high"
                         THEN [moved EXCEPT !.sim.qualityLevels.high.fishMax =
                                 Min(idealFishCount(st.sim.canvasWidth), MAX_FISH * FishUnit)]
                         ELSE moved
           IN  IF quality # st.sim.currentQuality THEN applyQualitySettings(high) ELSE high

\* timestep() with a loop that drops the last fish while it iterates.
timestepRaf_Trimming(st) ==
  [timestepRuns(st) EXCEPT !.creatures = SubSeq(@, 1, Len(@) - 1),
                           !.log = @ \o <<"loop", "replace", "end">>]

\* this.timestep(), as far as the frames and the population see it: the loop
\* for (const fish of this.world.creatures) leaves world.creatures as it is.
timestepRaf(st) ==
  [timestepRuns(st) EXCEPT !.log = @ \o <<"loop", "end">>]

\* requestAnimationFrame returns an id no pending frame request has.
newFrameId(b) ==
  CHOOSE n \in 1..(Cardinality(b.frames) + 1) :
    n \notin b.frames /\ \A m \in 1..(n - 1) : m \in b.frames

\* this.animationFrameId = requestAnimationFrame(this.animate.bind(this))
requestFrame(st) ==
  LET id == newFrameId(st.browser)
  IN  [st EXCEPT !.browser.frames = @ \cup {id}, !.sim.animationFrameId = id]

\* The test with > in place of >=.
frameDue_Strict(elapsed, interval) == elapsed > interval

\* if (elapsed >= this.interval)
frameDue(elapsed, interval) == elapsed >= interval

\* animate(timestamp)
animate(st0, timestamp) ==
  LET first == IF st0.sim.lastFrameTime = 0
                 THEN [st0 EXCEPT !.sim.lastFrameTime = timestamp,
                                  !.sim.lastFpsUpdate = timestamp]
                 ELSE st0
      elapsed == timestamp - first.sim.lastFrameTime
      counted == [first EXCEPT !.sim.frameCount = @ + 1]
      sinceFps == timestamp - counted.sim.lastFpsUpdate
      measured ==
        IF sinceFps >= fpsUpdateInterval
          THEN updateAdaptiveQuality(
                 [counted EXCEPT !.sim.fps = roundDiv(counted.sim.frameCount * 1000, sinceFps),
                                 !.sim.lastFpsUpdate = timestamp,
                                 !.sim.frameCount = 0])
          ELSE counted
      stepped ==
        IF frameDue(elapsed, measured.sim.interval)
          THEN timestepRaf([measured EXCEPT !.sim.lastFrameTime = timestamp])
          ELSE measured
  IN  requestFrame(stepped)

\* slow() and fast() of this revision
slowRaf(st) ==
  [st EXCEPT !.sim.interval = SLOW_INTERVAL, !.sim.alpha = SLOW_ALPHA, !.sim.slowmo = TRUE]

fastRaf(st) ==
  [st EXCEPT !.sim.interval = NORMAL_INTERVAL, !.sim.alpha = DEFAULT_ALPHA, !.sim.slowmo = FALSE]

\* handleKeyUp for the space key
handleKeyUpRaf(st) ==
  LET moved == IF st.sim.slowmo THEN fastRaf(st) ELSE slowRaf(st)
  IN  [moved EXCEPT !.sim.slowmo = ~moved.sim.slowmo]

\* start()
startRaf(st) == requestFrame(st)

\* stop(): cancelAnimationFrame(animationFrameId), clearInterval(timeline)
stopRaf(st) ==
  clearTimeline(
    IF st.sim.animationFrameId # 0
      THEN [st EXCEPT !.browser.frames = @ \ {st.sim.animationFrameId},
                      !.sim.animationFrameId = 0]
      ELSE st)

\* window.matchMedia(query): a new MediaQueryList, with no listener on it
matchMedia(st) == [st EXCEPT !.browser.mediaQueryLists = Append(@, {})]

\* setupEventListeners(): the nine handlers, and the display-change handler on
\* the MediaQueryList matchMedia returns
setupEventListenersRaf(st) ==
  LET made == matchMedia(setupEventListeners(st))
      list == Len(made.browser.mediaQueryLists)
  IN  [made EXCEPT !.browser.mediaQueryLists[list] = @ \cup {"boundDisplayChangeHandler"}]

\* cleanup(): stop(), the nine removals, and removeEventListener on the
\* MediaQueryList a second matchMedia call returns
cleanupRaf(st) ==
  LET removed == [stopRaf(st) EXCEPT !.browser.listeners = @ \ Handlers]
      made == matchMedia(removed)
      list == Len(made.browser.mediaQueryLists)
  IN  [made EXCEPT !.browser.mediaQueryLists[list] = @ \ {"boundDisplayChangeHandler"}]

\* Canvas widths (CSS pixels, devicePixelRatio 1) and the time of construction.
CanvasWidths == {1200}
StartTimes == {100}
FrameDeltas == {10, 45, 500}

\* The field initialisers of the class, with canvas.clientWidth = width
fieldsRaf(width) ==
  [interval |-> NORMAL_INTERVAL, alpha |-> DEFAULT_ALPHA, slowmo |-> FALSE, timeline |-> 0,
   animationFrameId |-> 0, lastFrameTime |-> 0, frameCount |-> 0, fps |-> 0,
   lastFpsUpdate |-> 0, currentQuality |-> "high", fpsHistory |-> <<>>,
   qualityLevels |-> [high |-> [fishMax |-> MAX_FISH * FishUnit, detailLevel |-> 3],
                      medium |-> [fishMax |-> mediumFishMax * FishUnit, detailLevel |-> 2],
                      low |-> [fishMax |-> lowFishMax * FishUnit, detailLevel |-> 1]],
   canvasWidth |-> width, uid |-> 0]

\* The page before any Simulation exists
emptyPage(now) ==
  [intervals |-> {}, frames |-> {}, listeners |-> {}, mediaQueryLists |-> <<>>,
   clock |-> now]

\* The rest of the constructor once both contexts are there: setupEventListeners(),
\* resize(), initFish(options.numFish), timestep(), start()
constructBody(st, options) ==
  startRaf(timestepRaf(initFish(setupEventListenersRaf(st), options.numFish)))

\* The constructor with setupEventListeners() moved before the request for the
\* off-screen context.
constructor_ListenersFirst(page, options) ==
  LET st == RunningRaf(fieldsRaf(options.width), page, <<>>)
  IN  IF ~options.context
        THEN [thrown |-> "Could not get canvas context", st |-> st]
      ELSE IF ~options.offscreenContext
        THEN [thrown |-> "Could not get offscreen canvas context",
              st |-> setupEventListenersRaf(st)]
      ELSE [thrown |-> "", st |-> constructBody(st, options)]

\* new Simulation(options) on the page: thrown is the message of the Error
\* thrown ("" when the constructor returns), st the state at that moment.
\* options.context and options.offscreenContext tell whether getContext('2d')
\* returns a context for the canvas and for the off-screen canvas.
constructor(page, options) ==
  LET st == RunningRaf(fieldsRaf(options.width), page, <<>>)
  IN  IF ~options.context
        THEN [thrown |-> "Could not get canvas context", st |-> st]
      ELSE IF ~options.offscreenContext
        THEN [thrown |-> "Could not get offscreen canvas context", st |-> st]
      ELSE [thrown |-> "", st |-> constructBody(st, options)]

\* The state after new Simulation(options), canvas.clientWidth being width and
\* options.numFish being numFish (0 when absent)
constructedFor(width, numFish, now) ==
  constructor(emptyPage(now), [context |-> TRUE, offscreenContext |-> TRUE,
                               width |-> width, numFish |-> numFish]).st

\* new Simulation(options) without options.numFish
constructedRaf(width, now) == constructedFor(width, 0, now)

BecomesRaf(st, by, stopped, keys) ==
  /\ sim' = st.sim
  /\ browser' = st.browser
  /\ creatures' = st.creatures
  /\ trace' = [ticks |-> st.ticks, by |-> by, stopped |-> stopped, keys |-> keys,
                log |-> st.log]
  /\ UNCHANGED <<cells, gridState, callVars>>

RafInit ==
  /\ cells = [k \in {} |-> <<>>]
  /\ gridState = "cleared"
  /\ NoCall
  /\ \E width \in CanvasWidths, now \in StartTimes :
       LET st == constructedRaf(width, now)
       IN  /\ sim = st.sim
           /\ browser = st.browser
           /\ creatures = st.creatures
           /\ trace = [ticks |-> 0, by |-> "call", stopped |-> FALSE, keys |-> 0,
                       log |-> st.log]

\* The browser delivers a pending frame request: animate(timestamp)
Frame ==
  \E id \in browser.frames, dt \in FrameDeltas :
    /\ browser.clock + dt <= MaxTime
    /\ BecomesRaf(animate(RunningRaf(sim, [browser EXCEPT !.frames = @ \ {id},
                                                          !.clock = @ + dt], creatures),
                          browser.clock + dt),
                  "frame", trace.stopped, trace.keys)

\* keyup of the space key, delivered while the handler is registered
RafKeyUp ==
  /\ <<"window", "keyup", "boundKeyUpHandler">> \in browser.listeners
  /\ trace.keys < MaxKeys
  /\ BecomesRaf(handleKeyUpRaf(RunningRaf(sim, browser, creatures)),
                "key", trace.stopped, trace.keys + 1)

\* simulation.stop()
RafStop ==
  /\ ~trace.stopped
  /\ BecomesRaf(stopRaf(RunningRaf(sim, browser, creatures)), "call", TRUE, trace.keys)

\* simulation.start()
RafStart ==
  /\ trace.stopped
  /\ BecomesRaf(startRaf(RunningRaf(sim, browser, creatures)), "call", FALSE, trace.keys)

\* simulation.cleanup(), which the component calls on unmount
RafCleanup ==
  /\ browser.listeners # {}
  /\ BecomesRaf(cleanupRaf(RunningRaf(sim, browser, creatures)), "cleanup", TRUE, trace.keys)

RafNext ==
  \/ Frame
  \/ RafKeyUp
  \/ RafStop
  \/ RafStart
  \/ RafCleanup

SpecRaf == RafInit /\ [][RafNext]_vars

(***************************************************************************)
(* Simulation, requestAnimationFrame revision: construction                *)
(***************************************************************************)
\* An instance exists: the last new Simulation(options) returned.
Constructed == trace.by \notin {"none", "throw"}

\* The page the component is mounted on, before it creates the Simulation
NewInit ==
  /\ NoWorld
  /\ NoCall
  /\ sim = NoValue
  /\ \E now \in StartTimes : browser = emptyPage(now)
  /\ trace = [ticks |-> 0, by |-> "none", stopped |-> FALSE, keys |-> 0, log |-> <<>>]

\* new Simulation(options), while no instance exists
Construct ==
  /\ ~Constructed
  /\ \E context \in BOOLEAN, offscreenContext \in BOOLEAN, width \in CanvasWidths :
       \E options \in {[context |-> context, offscreenContext |-> offscreenContext,
                        width |-> width, numFish |-> 0]},
          made \in {constructor(browser, [context |-> context,
                                          offscreenContext |-> offscreenContext,
                                          width |-> width, numFish |-> 0])} :
         /\ sim' = IF made.thrown # "" THEN NoValue ELSE made.st.sim
         /\ browser' = made.st.browser
         /\ creatures' = made.st.creatures
         /\ trace' = [ticks |-> made.st.ticks,
                      by |-> IF made.thrown # "" THEN "throw" ELSE "new",
                      stopped |-> FALSE, keys |-> 0, log |-> made.st.log,
                      thrown |-> made.thrown, options |-> options]
         /\ UNCHANGED <<cells, gridState, callVars>>

\* What the page does with the instance once it exists
NewFrame == Constructed /\ Frame
NewKeyUp == Constructed /\ RafKeyUp
NewStop == Constructed /\ RafStop
NewStart == Constructed /\ RafStart
NewCleanup == Constructed /\ RafCleanup

NewNext ==
  \/ Construct
  \/ NewFrame
  \/ NewKeyUp
  \/ NewStop
  \/ NewStart
  \/ NewCleanup

SpecNew == NewInit /\ [][NewNext]_vars

(***************************************************************************)
(* Simulation, requestAnimationFrame revision: the population under FPS    *)
(* measurements, resizes and display changes                               *)
(***************************************************************************)
\* resize() adding fish in whatever tier the simulation is in.
resize_AnyTier(st0, clientWidth) ==
  LET prevWidth == st0.sim.canvasWidth
      st == [st0 EXCEPT !.sim.canvasWidth = clientWidth]
      currentFishCount == Len(st.creatures) * FishUnit
      ideal == idealFishCount(clientWidth)
      additionalFish == Min(ideal - currentFishCount, MAX_FISH * FishUnit - currentFishCount)
  IN  IF /\ prevWidth > 0
         /\ 10 * clientWidth > 12 * prevWidth
         /\ ideal > currentFishCount
         /\ additionalFish > 0
        THEN addFish(st, additionalFish)
        ELSE st

\* resize() with canvas.clientWidth = clientWidth, devicePixelRatio 1 and the
\* height as it was (heightRatio 1); widthRatio > 1.2 is compared on the products.
resize(st0, clientWidth) ==
  LET prevWidth == st0.sim.canvasWidth
      st == [st0 EXCEPT !.sim.canvasWidth = clientWidth]
      currentFishCount == Len(st.creatures) * FishUnit
      ideal == idealFishCount(clientWidth)
      additionalFish == Min(ideal - currentFishCount, MAX_FISH * FishUnit - currentFishCount)
  IN  IF /\ prevWidth > 0
         /\ st.sim.currentQuality = "high"
         /\ 10 * clientWidth > 12 * prevWidth
         /\ ideal > currentFishCount
         /\ additionalFish > 0
        THEN addFish(st, additionalFish)
        ELSE st

\* handleDisplayChange(): resize(), then updateAdaptiveQuality()
handleDisplayChange(st, clientWidth) == updateAdaptiveQuality(resize(st, clientWidth))

\* The frame that closes an FPS interval: animate(lastFpsUpdate +
\* fpsUpdateInterval), entered with the frameCount that makes Math.round(
\* frameCount * 1000 / fpsUpdateInterval) the sample fps (an even number).
measuringFrame(st, fps) ==
  LET timestamp == st.sim.lastFpsUpdate + fpsUpdateInterval
  IN  animate([st EXCEPT !.sim.frameCount = fps \div 2 - 1,
                         !.browser.frames = @ \ {st.sim.animationFrameId},
                         !.browser.clock = timestamp,
                         !.ticks = 0,
                         !.log = <<>>],
              timestamp)

\* The frames closing successive FPS intervals, one per sample
RECURSIVE measuringFrames(_, _)
measuringFrames(st, samples) ==
  IF samples = <<>> THEN st
  ELSE With(measuringFrame(st, Head(samples)),
            LAMBDA next : measuringFrames(next, Tail(samples)))

\* The first frame after construction, which sets lastFrameTime and lastFpsUpdate
firstFrame(st, timestamp) ==
  animate([st EXCEPT !.browser.frames = @ \ {st.sim.animationFrameId},
                     !.browser.clock = timestamp, !.ticks = 0, !.log = <<>>],
          timestamp)

\* FPS samples, canvas widths (CSS pixels) and options.numFish (twelfths; 0 when
\* absent, otherwise 250 fish).
FpsSamples == {20, 28, 40, 60}
PopWidths == {300, 640, 1000}
NumFishRequests == {0, 250 * FishUnit}
FirstFrameDelay == 16

\* The first fpsHistorySize - 1 samples: k times one sample, then another.
SplitPoints == {1, 5}
Windows ==
  { [i \in 1..(fpsHistorySize - 1) |-> IF i <= k THEN a ELSE b] :
      a \in FpsSamples, b \in FpsSamples, k \in SplitPoints }

\* The step that runs a handler, st being its result: by names the handler
\* ("frame", "resize" or "display"), evals counts the calls of
\* updateAdaptiveQuality on a full window, before holds the tier and the number
\* of fish the handler started with, tiers the tier at construction and after
\* each evaluation.
BecomesPop(st, by, evals) ==
  /\ sim' = st.sim
  /\ browser' = st.browser
  /\ creatures' = st.creatures
  /\ trace' = [ticks |-> st.ticks, by |-> by, evals |-> evals, log |-> st.log,
                before |-> [quality |-> sim.currentQuality, count |-> Len(creatures)],
                tiers |-> IF by = "resize" THEN trace.tiers
                          ELSE Append(trace.tiers, st.sim.currentQuality)]
  /\ UNCHANGED <<cells, gridState, callVars>>

\* The instance after construction, the first frame and the fpsHistorySize - 1
\* measurements that fill the window without evaluating it.
PopInit ==
  /\ cells = [k \in {} |-> <<>>]
  /\ gridState = "cleared"
  /\ NoCall
  /\ \E width \in PopWidths, numFish \in NumFishRequests, now \in StartTimes,
        window \in Windows :
       \E st \in {measuringFrames(firstFrame(constructedFor(width, numFish, now),
                                             now + FirstFrameDelay), window)} :
         /\ sim = st.sim
         /\ browser = st.browser
         /\ creatures = st.creatures
         /\ trace = [ticks |-> st.ticks, by |-> "call", evals |-> 0, log |-> st.log,
                     before |-> [quality |-> st.sim.currentQuality,
                                 count |-> Len(st.creatures)],
                     tiers |-> <<st.sim.currentQuality>>]

\* The frame that closes an FPS interval, with the sample fps
PopFrame ==
  \E fps \in FpsSamples :
    /\ trace.evals < MaxEvals
    /\ \E st \in {measuringFrame(RunningRaf(sim, browser, creatures), fps)} :
         BecomesPop(st, "frame", trace.evals + 1)

\* The window is resized: the resize handler
PopResize ==
  \E width \in PopWidths \ {sim.canvasWidth} :
    \E st \in {resize(RunningRaf(sim, browser, creatures), width)} :
      BecomesPop(st, "resize", trace.evals)

\* The display changes: handleDisplayChange()
PopDisplayChange ==
  \E width \in PopWidths :
    /\ trace.evals < MaxEvals
    /\ \E st \in {handleDisplayChange(RunningRaf(sim, browser, creatures), width)} :
         BecomesPop(st, "display", trace.evals + 1)

PopNext ==
  \/ PopFrame
  \/ PopResize
  \/ PopDisplayChange

SpecPop == PopInit /\ [][PopNext]_vars

(***************************************************************************)
(* Simulation, requestAnimationFrame revision: the FPS window filling up   *)
(* from construction                                                       *)
(***************************************************************************)
\* The canvas width and the FPS samples while the window fills.
WarmWidth == 1000
WarmSamples == {20, 60}

\* The instance after construction and the first frame: no sample recorded.
WarmInit ==
  /\ cells = [k \in {} |-> <<>>]
  /\ gridState = "cleared"
  /\ NoCall
  /\ \E now \in StartTimes :
       \E st \in {firstFrame(constructedFor(WarmWidth, 0, now), now + FirstFrameDelay)} :
         /\ sim = st.sim
         /\ browser = st.browser
         /\ creatures = st.creatures
         /\ trace = [ticks |-> st.ticks, by |-> "call", evals |-> 0, log |-> st.log,
                     before |-> [quality |-> st.sim.currentQuality,
                                 count |-> Len(st.creatures)],
                     tiers |-> <<st.sim.currentQuality>>]

\* The frame that closes an FPS interval and records the sample fps
WarmFrame ==
  \E fps \in WarmSamples :
    /\ trace.evals < MaxSamples
    /\ \E st \in {measuringFrame(RunningRaf(sim, browser, creatures), fps)} :
         BecomesPop(st, "frame", trace.evals + 1)

\* The display changes with the canvas as wide as it was: handleDisplayChange()
\* records this.fps once more
WarmDisplayChange ==
  /\ trace.evals < MaxSamples
  /\ \E st \in {handleDisplayChange(RunningRaf(sim, browser, creatures), sim.canvasWidth)} :
       BecomesPop(st, "display", trace.evals + 1)

WarmNext ==
  \/ WarmFrame
  \/ WarmDisplayChange

SpecWarm == WarmInit /\ [][WarmNext]_vars

(***************************************************************************)
(* Simulation.resize in both revisions: the locations of the fish          *)
(***************************************************************************)
\* Simulation.ts: a fish beyond the new right or bottom edge is put
\* RESIZE_PADDING inside it.
resizeLocations(fishes, world) ==
  [i \in 1..Len(fishes) |->
     [fishes[i] EXCEPT
        !.location.x = IF @ > world.width THEN world.width - Px(RESIZE_PADDING) ELSE @,
        !.location.y = IF @ > world.height THEN world.height - Px(RESIZE_PADDING) ELSE @]]

\* requestAnimationFrame revision: with a previous size, the location is
\* scaled by the ratio of the sizes (whole numbers of pixels) and then clamped
\* with Math.min(Math.max(x, BOUNDARY_DISTANCE), width - BOUNDARY_DISTANCE).
resizeLocationsRaf(fishes, prev, world) ==
  IF prev.width > 0 /\ prev.height > 0
    THEN [i \in 1..Len(fishes) |->
            [fishes[i] EXCEPT
               !.location.x = Min(Max(TruncDiv(@ * (world.width \div Scale), prev.width \div Scale),
                                      Px(BOUNDARY_DISTANCE)),
                                  world.width - Px(BOUNDARY_DISTANCE)),
               !.location.y = Min(Max(TruncDiv(@ * (world.height \div Scale), prev.height \div Scale),
                                      Px(BOUNDARY_DISTANCE)),
                                  world.height - Px(BOUNDARY_DISTANCE))]]
    ELSE fishes

\* The world before the resize (0 by 0 for a canvas not laid out yet), the
\* canvas sizes after it, and where the fish is: anywhere inside the old world.
PrevSizes == {[width |-> 0, height |-> 0], [width |-> Px(800), height |-> Px(600)]}
NewSizes ==
  {[width |-> Px(w), height |-> Px(h)] : w \in {30, 80, 400, 1000}, h \in {40, 300, 600}}
ResizePoints(prev) ==
  IF prev.width = 0 THEN {Vector(0, 0)}
  ELSE {Vector(Px(x), Px(y)) : x \in {0, 30, 400, 790}, y \in {10, 300, 590}}

ResizeInit ==
  /\ \E prev \in PrevSizes :
       /\ sim = [world |-> prev]
       /\ \E p \in ResizePoints(prev) :
            creatures = << Fish(0, 100, p.x, p.y, Vector(Px(3), 0)) >>
  /\ cells = clearCells
  /\ gridState = "cleared"
  /\ \E size \in NewSizes : args = [op |-> "resize", canvas |-> size]
  /\ ret = NoValue
  /\ browser = NoValue
  /\ trace = NoValue

\* Simulation.ts: resize() after the canvas took the size args.canvas
Resize ==
  /\ ret.op = "none"
  /\ sim' = [world |-> args.canvas]
  /\ creatures' = resizeLocations(creatures, args.canvas)
  /\ ret' = [op |-> "resize", revision |-> "timers", before |-> creatures[1].location]
  /\ UNCHANGED <<cells, gridState, args, browser, trace>>

\* requestAnimationFrame revision: resize() with the canvas laid out at args.canvas
ResizeRaf ==
  /\ ret.op = "none"
  /\ sim' = [world |-> args.canvas]
  /\ creatures' = resizeLocationsRaf(creatures, sim.world, args.canvas)
  /\ ret' = [op |-> "resize", revision |-> "frames", before |-> creatures[1].location]
  /\ UNCHANGED <<cells, gridState, args, browser, trace>>

ResizeNext ==
  \/ Resize
  \/ ResizeRaf

SpecResize == ResizeInit /\ [][ResizeNext]_vars

(***************************************************************************)
(* Simulation.timestep: one tick over world.creatures                      *)
(***************************************************************************)
\* isFishVisible(fish) of the requestAnimationFrame revision
isFishVisible(fish, world) ==
  LET margin == fish.length * 2
  IN  /\ fish.location.x + margin >= 0
      /\ fish.location.x - margin <= world.width
      /\ fish.location.y + margin >= 0
      /\ fish.location.y - margin <= world.height

\* The fish records at the positions ks of world.creatures.
fishAt(fishes, ks) == [n \in 1..Len(ks) |-> fishes[ks[n]]]

\* Positions in world.creatures of the entries ks of the list neighbors.
pick(neighbors, ks) == [n \in 1..Len(ks) |-> neighbors[ks[n]]]

\* The calls names, made on fish i, added to the record of the tick.
called(st, i, names) == [st EXCEPT !.calls = @ \o [n \in 1..Len(names) |-> <<i, names[n]>>]]

\* The three lists categorizeFishByMass returned for fish i, added to the
\* record of the tick.
noted(st, i, cat) == [st EXCEPT !.found = Append(@, [fish |-> i, lists |-> cat])]

\* Fish that all hold one and the same velocity vector: what fish i writes to
\* it, every fish gets.
put_SharedVelocity(st, i, fish) ==
  [st EXCEPT !.creatures =
     [j \in 1..Len(@) |->
        IF j = i THEN fish ELSE [@[j] EXCEPT !.velocity = fish.velocity]]]

\* with(st, i, fish): fish i of st replaced by the record fish.  The methods
\* of fish i write its own vectors only: the vectors of other fish are read, or
\* copied first (creature.location.copy() in avoid, this.location.copy() in
\* attract), and every fish owns the vectors its constructor made.
put(st, i, fish) == [st EXCEPT !.creatures[i] = fish]

\* fish.update() in the loop body; Fish.ts has no teleport (hasWorld is FALSE).
integrateStep(fish) ==
  update(fish, [width |-> 0, height |-> 0], CHOOSE r \in RandomDraws : TRUE)

\* The end of the loop body with update() before chase().
loopTail_UpdateFirst(st0, i, smaller) ==
  With(called(put(st0, i, integrateStep(st0.creatures[i])), i, <<"update">>), LAMBDA st1 :
  With(IF smaller # <<>>
         THEN called(put(st1, i, chase(st1.creatures[i], fishAt(st1.creatures, smaller))),
                     i, <<"chase">>)
         ELSE st1, LAMBDA st2 :
    called(st2, i, <<"draw">>)))

\* The end of the loop body: chase if smaller.length, update(), draw(ctx).
loopTail(st0, i, smaller) ==
  With(IF smaller # <<>>
         THEN called(put(st0, i, chase(st0.creatures[i], fishAt(st0.creatures, smaller))),
                     i, <<"chase">>)
         ELSE st0, LAMBDA st1 :
  With(called(put(st1, i, integrateStep(st1.creatures[i])), i, <<"update">>), LAMBDA st2 :
    called(st2, i, <<"draw">>)))

\* The loop body with shoal() called for any neighbour at all, not for similar ones.
behave_AnyNeighbour(st0, world, turns, i, cat) ==
  With(cat.similar \o cat.bigger \o cat.smaller, LAMBDA all :
  With(called(put(st0, i, IF all # <<>>
                            THEN shoal(st0.creatures[i], fishAt(st0.creatures, all))
                            ELSE wander(st0.creatures[i], turns[i])),
              i, <<IF all # <<>> THEN "shoal" ELSE "wander">>), LAMBDA st1 :
  With(called(put(st1, i, boundaries(st1.creatures[i], world)), i, <<"boundaries">>),
       LAMBDA st2 :
  With(IF cat.bigger # <<>>
         THEN called(put(st2, i, avoid(st2.creatures[i], fishAt(st2.creatures, cat.bigger),
                                       Px(AVOID_RANGE))),
                     i, <<"avoid">>)
         ELSE st2, LAMBDA st3 :
    loopTail(st3, i, cat.smaller)))))

\* The loop body after the neighbours are classified: shoal or wander,
\* boundaries, avoid if bigger.length, then the end of the body.
behave(st0, world, turns, i, cat) ==
  With(called(put(st0, i, IF cat.similar # <<>>
                            THEN shoal(st0.creatures[i], fishAt(st0.creatures, cat.similar))
                            ELSE wander(st0.creatures[i], turns[i])),
              i, <<IF cat.similar # <<>> THEN "shoal" ELSE "wander">>), LAMBDA st1 :
  With(called(put(st1, i, boundaries(st1.creatures[i], world)), i, <<"boundaries">>),
       LAMBDA st2 :
  With(IF cat.bigger # <<>>
         THEN called(put(st2, i, avoid(st2.creatures[i], fishAt(st2.creatures, cat.bigger),
                                       Px(AVOID_RANGE))),
                     i, <<"avoid">>)
         ELSE st2, LAMBDA st3 :
    loopTail(st3, i, cat.smaller))))

\* query, filterVisibleNeighbors and categorizeFishByMass for fish i: the three
\* lists, as positions in world.creatures.
classify(st, cs, i) ==
  With(st.creatures[i], LAMBDA fish :
  With(query(cs, st.creatures, fish.location, fish.lookRange), LAMBDA nearbyFish :
  With(filterVisibleNeighbors(st.creatures, i, nearbyFish), LAMBDA neighbors :
  With(categorizeFishByMass(fish, fishAt(st.creatures, neighbors),
                            Px(MASS_THRESHOLD_BIGGER), MASS_THRESHOLD_SMALLER), LAMBDA cat :
    [bigger |-> pick(neighbors, cat.bigger),
     similar |-> pick(neighbors, cat.similar),
     smaller |-> pick(neighbors, cat.smaller)]))))

\* The body of for (const fish of this.world.creatures) for the fish at
\* position i; cs is the grid updateGrid built before the loop, s the
\* instance, turns the random choice wander() makes for each fish.
loopBody(st, cs, s, world, turns, i) ==
  IF s.culling /\ ~isFishVisible(st.creatures[i], world) THEN st
  ELSE
    With(IF s.follow
           THEN called(put(st, i, follow(st.creatures[i], s.mouse, Px(FOLLOW_RADIUS))),
                       i, <<"follow">>)
           ELSE st, LAMBDA st1 :
    With(classify(st1, cs, i), LAMBDA cat :
      behave(noted(called(st1, i, <<"query", "filterVisibleNeighbors", "categorizeFishByMass">>),
                   i, cat),
             world, turns, i, cat)))

RECURSIVE loopFrom(_, _, _, _, _, _, _)
loopFrom(st0, cs, s, world, turns, order, k) ==
  With(st0, LAMBDA st :
    IF k > Len(order) THEN st
    ELSE loopFrom(loopBody(st, cs, s, world, turns, order[k]),
                  cs, s, world, turns, order, k + 1))

\* timestep() with the fish taken in the given order (the code takes them in
\* list order): updateGrid, then the loop.
timestepIn(order, fishes, s, world, turns) ==
  With(updateGrid(cells, fishes), LAMBDA cs :
  With(loopFrom([creatures |-> fishes, calls |-> <<>>, found |-> <<>>],
                cs, s, world, turns, order, 1),
       LAMBDA done :
    [creatures |-> done.creatures, cells |-> cs, calls |-> done.calls, found |-> done.found]))

ListOrder(fishes) == [i \in 1..Len(fishes) |-> i]

timestep(fishes, s, world, turns) == timestepIn(ListOrder(fishes), fishes, s, world, turns)

\* Masses, locations (one of them off the canvas) and the velocity of the fish
\* a tick starts from; the pointer rests at MousePoint.
TickMasses == {50, 100, 120}
TickPoints == {Vector(Px(100), Px(100)), Vector(Px(130), Px(100)), Vector(-Px(50), Px(100))}
TickVelocity == Vector(Px(3), 0)
MousePoint == Vector(Px(200), Px(150))

TickInit(culling) ==
  /\ \E ms \in [1..NumFish -> TickMasses], ps \in [1..NumFish -> TickPoints] :
       creatures = [i \in 1..NumFish |-> Fish(i - 1, ms[i], ps[i].x, ps[i].y, TickVelocity)]
  /\ cells = clearCells
  /\ gridState = "cleared"
  /\ NoCall
  /\ \E f \in BOOLEAN : sim = [follow |-> f, mouse |-> MousePoint, culling |-> culling]
  /\ browser = NoValue
  /\ trace = [calls |-> <<>>, found |-> <<>>, ticks |-> 0]

\* A timer or frame runs timestep()
Tick ==
  /\ trace.ticks < MaxTicks
  /\ \E turns \in [1..NumFish -> WanderTurns] :
       \E done \in {timestep(creatures, sim, WorldSize, turns)} :
         /\ creatures' = done.creatures
         /\ cells' = done.cells
         /\ trace' = [calls |-> done.calls, found |-> done.found, ticks |-> trace.ticks + 1]
  /\ gridState' = "stale"
  /\ UNCHANGED <<callVars, sim, browser>>

TickNext == Tick

\* Simulation.ts: every fish is processed
SpecTick == TickInit(FALSE) /\ [][TickNext]_vars

\* requestAnimationFrame revision: fish off the canvas are skipped
SpecTickCulled == TickInit(TRUE) /\ [][TickNext]_vars

(***************************************************************************)
(* Simulation.ts: timestep() one fish at a time                            *)
(***************************************************************************)
\* timestep() has run updateGrid and is about to enter the loop; trace.next is
\* the position of the fish the loop takes next.
BodyInit ==
  /\ \E ms \in [1..NumFish -> TickMasses], ps \in [1..NumFish -> TickPoints] :
       creatures = [i \in 1..NumFish |-> Fish(i - 1, ms[i], ps[i].x, ps[i].y, TickVelocity)]
  /\ cells = updateGrid(clearCells, creatures)
  /\ gridState = "fresh"
  /\ NoCall
  /\ \E f \in BOOLEAN : sim = [follow |-> f, mouse |-> MousePoint, culling |-> FALSE]
  /\ browser = NoValue
  /\ trace = [calls |-> <<>>, found |-> <<>>, ticks |-> 0, next |-> 1]

\* One pass of for (const fish of this.world.creatures)
Body ==
  /\ trace.next <= Len(creatures)
  /\ \E turns \in [1..NumFish -> WanderTurns] :
       \E st \in {loopBody([creatures |-> creatures, calls |-> trace.calls,
                            found |-> trace.found],
                           cells, sim, WorldSize, turns, trace.next)} :
         /\ creatures' = st.creatures
         /\ trace' = [trace EXCEPT !.calls = st.calls, !.found = st.found,
                                   !.next = @ + 1]
  /\ gridState' = "stale"
  /\ UNCHANGED <<cells, callVars, sim, browser>>

\* The loop is over: timestep() returns
BodyEnd ==
  /\ trace.next = Len(creatures) + 1
  /\ trace.ticks = 0
  /\ trace' = [trace EXCEPT !.ticks = 1]
  /\ UNCHANGED <<gridVars, callVars, sim, browser>>

BodyNext ==
  \/ Body
  \/ BodyEnd

SpecBody == BodyInit /\ [][BodyNext]_vars

(***************************************************************************)
(* Claims about Fish.update and categorizeFishByMass                       *)
(***************************************************************************)
\* The velocity lies between MIN_VELOCITY_MAG and maxspeed.
speedInRange(fish) ==
  /\ ~magLess(fish.velocity, Px(MIN_VELOCITY_MAG))
  /\ ~magGreater(fish.velocity, fish.maxspeed)

\* C3: after Fish.update() returns, MIN_VELOCITY_MAG <= |velocity| <= maxspeed,
\* whatever the mass, velocity and acceleration on entry, also when the update
\* teleported the fish back from far outside the world.
C3_SpeedInRange ==
  ret.op = "update" => speedInRange(ret.value)

\* C3, the part that holds: when the update does not teleport the fish, its
\* velocity is between MIN_VELOCITY_MAG and maxspeed afterwards.
C3_SpeedInRangeUnlessTeleported ==
  (ret.op = "update" /\ ret.value.location = add(args.fish.location, ret.value.velocity))
    => speedInRange(ret.value)

\* An update that teleported a fish whose speed was below 2.5.
C3_TeleportedSlow ==
  /\ ret.op = "update"
  /\ ret.value.location # add(args.fish.location, ret.value.velocity)
  /\ magLess(ret.value.velocity, Px(MIN_VELOCITY_MAG))

\* Position k of the neighbour list is in the list ks.
InList(ks, k) == \E n \in 1..Len(ks) : ks[n] = k

\* No position occurs twice in ks.
NoDuplicates(ks) == \A m, n \in 1..Len(ks) : ks[m] = ks[n] => m = n

\* C4: categorizeFishByMass(self, neighbors, 2, 0.5) puts every neighbour into
\* exactly one of bigger, similar, smaller: bigger iff its mass is more than
\* twice self's, smaller iff less than half, similar otherwise; a mass of
\* exactly twice or exactly half self's is similar.
C4_Partition ==
  ret.op = "categorizeFishByMass" =>
    LET self == args.fish
        ns == args.neighbors
        r == ret.value
    IN  /\ Len(r.bigger) + Len(r.similar) + Len(r.smaller) = Len(ns)
        /\ NoDuplicates(r.bigger) /\ NoDuplicates(r.similar) /\ NoDuplicates(r.smaller)
        /\ \A k \in 1..Len(ns) :
             /\ InList(r.bigger, k) <=> ns[k].mass > 2 * self.mass
             /\ InList(r.smaller, k) <=> 2 * ns[k].mass < self.mass
             /\ InList(r.similar, k) <=>
                  (ns[k].mass <= 2 * self.mass /\ 2 * ns[k].mass >= self.mass)

\* A call whose neighbours are one of exactly twice self's mass and one of
\* exactly half of it, both classified similar.
C4_Witness ==
  /\ ret.op = "categorizeFishByMass"
  /\ Len(args.neighbors) = 2
  /\ args.neighbors[1].mass = 2 * args.fish.mass
  /\ 2 * args.neighbors[2].mass = args.fish.mass
  /\ ret.value.similar = <<1, 2>>

(***************************************************************************)
(* Claims about the Simulation life cycle                                  *)
(***************************************************************************)
\* C5: after stop() returns, timestep() is not executed again unless start() is
\* called, also when stop() is called during a slow-motion or speed-up
\* transition.
C5_NoTickAfterStop ==
  trace.stopped => trace.ticks = 0

\* stop() is in force, no key was released since, and a transition timeout has
\* just fired, run timestep() and armed the next timeout.
C5_TickWhileStopped ==
  /\ trace.stopped
  /\ trace.by = "timeout"
  /\ trace.ticks > 0
  /\ trace.keys = 1
  /\ sim.timeline = 0
  /\ pending > 0

\* C5, the part that holds: stop() leaves no repeating timer active.
C5_NoTimerRightAfterStop ==
  [][Stop => browser'.intervals = {}]_vars

\* C6: after cleanup() returns, none of the handlers setupEventListeners
\* registered (mouse, touch, keyboard, resize, display-resolution change) is
\* registered on any event target.
C6_NoHandlerAfterCleanup ==
  trace.by = "cleanup" =>
    /\ browser.listeners \cap Handlers = {}
    /\ \A n \in 1..Len(browser.mediaQueryLists) :
         "boundDisplayChangeHandler" \notin browser.mediaQueryLists[n]

\* cleanup() has returned and the display-change handler is still on the
\* MediaQueryList setupEventListeners registered it on.
C6_DisplayHandlerLeft ==
  /\ trace.by = "cleanup"
  /\ browser.listeners = {}
  /\ Len(browser.mediaQueryLists) = 2
  /\ "boundDisplayChangeHandler" \in browser.mediaQueryLists[1]

\* C6, the part that holds: cleanup() removes the nine handlers registered on
\* window and document.body.
C6_WindowAndBodyHandlersRemoved ==
  trace.by = "cleanup" => browser.listeners \cap Handlers = {}

\* A step that ran animate(timestamp): the frame was delivered at browser'.clock.
AnimateStep == trace'.by = "frame" /\ browser'.clock # browser.clock

\* C10: each invocation of animate(timestamp) runs timestep() exactly once and
\* sets lastFrameTime to timestamp when timestamp - lastFrameTime >= interval, and
\* otherwise runs timestep() zero times and leaves lastFrameTime unchanged.
C10_AsStated ==
  [][AnimateStep =>
       IF browser'.clock - sim.lastFrameTime >= sim.interval
         THEN trace'.ticks = 1 /\ sim'.lastFrameTime = browser'.clock
         ELSE trace'.ticks = 0 /\ sim'.lastFrameTime = sim.lastFrameTime]_vars

\* C10 (amended): an invocation of animate(timestamp) entered with lastFrameTime
\* not 0 runs timestep() exactly once and sets lastFrameTime to timestamp when
\* timestamp - lastFrameTime >= interval, and otherwise runs timestep() zero times
\* and leaves lastFrameTime unchanged; an invocation entered with lastFrameTime 0
\* (the first one) sets lastFrameTime to timestamp and runs timestep() zero
\* times.  No invocation runs more than one tick.
C10_Animate ==
  [][AnimateStep =>
       IF sim.lastFrameTime = 0
         THEN trace'.ticks = 0 /\ sim'.lastFrameTime = browser'.clock
       ELSE IF browser'.clock - sim.lastFrameTime >= sim.interval
         THEN trace'.ticks = 1 /\ sim'.lastFrameTime = browser'.clock
       ELSE trace'.ticks = 0 /\ sim'.lastFrameTime = sim.lastFrameTime]_vars

\* animate has just run one tick at exactly interval ms after the previous one.
C10_Witness ==
  /\ trace.by = "frame"
  /\ trace.ticks = 1
  /\ sim.lastFrameTime = browser.clock
  /\ browser.clock = 100 + 10 + SLOW_INTERVAL
  /\ sim.interval = SLOW_INTERVAL

(***************************************************************************)
(* Claims about the tick                                                   *)
(***************************************************************************)
\* The orders the fish of a list of n can be processed in.
Orders(n) == {order \in [1..n -> 1..n] : \A a, b \in 1..n : order[a] = order[b] => a = b}

\* Locations and velocities of all fish.
Motion(fishes) ==
  [i \in 1..Len(fishes) |-> <<fishes[i].location, fishes[i].velocity>>]

\* C7: within one tick, the locations and velocities of all agents at the end of
\* the tick are the same whatever order the agents are processed in, for fixed
\* random choices.
C7_OrderIndependent ==
  \A turns \in [1..Len(creatures) -> WanderTurns], order \in Orders(Len(creatures)) :
    Motion(timestepIn(order, creatures, sim, WorldSize, turns).creatures)
      = Motion(timestep(creatures, sim, WorldSize, turns).creatures)

\* Two fish of similar mass within each other's lookRange, before a tick: the
\* one processed second reads the first one's location and velocity after its
\* update.
C7_ShoalingPair ==
  /\ trace.ticks = 0
  /\ creatures[1].mass = creatures[2].mass
  /\ creatures[1].location # creatures[2].location
  /\ distWithin(creatures[1].location, creatures[2].location, creatures[1].lookRange)
  /\ \E turns \in [1..Len(creatures) -> WanderTurns], order \in Orders(Len(creatures)) :
       Motion(timestepIn(order, creatures, sim, WorldSize, turns).creatures)
         # Motion(timestep(creatures, sim, WorldSize, turns).creatures)

\* The calls made on fish i in the last tick, in order.
CallsOn(i) == SelectSeq(trace.calls, LAMBDA c : c[1] = i)

\* How often name was called on fish i in the last tick.
Count(i, name) == Len(SelectSeq(trace.calls, LAMBDA c : c = <<i, name>>))

\* C8: in every tick update() is executed exactly once for every agent in the
\* world's agent list, whether or not the agent lies inside the visible area.
C8_EveryFishUpdatedOnce ==
  trace.ticks > 0 => \A i \in 1..Len(creatures) : Count(i, "update") = 1

\* A tick has run and a fish off the canvas got no update() call and has not
\* moved.
C8_SkippedFish ==
  /\ trace.ticks = 1
  /\ \E i \in 1..Len(creatures) :
       /\ Count(i, "update") = 0
       /\ creatures[i].location = Vector(-Px(50), Px(100))
       /\ ~isFishVisible(creatures[i], WorldSize)

\* The place of a call in the order of the loop body.
Rank(name) ==
  CASE name = "follow" -> 0
    [] name \in {"query", "filterVisibleNeighbors", "categorizeFishByMass"} -> 1
    [] name \in {"shoal", "wander"} -> 2
    [] name = "boundaries" -> 3
    [] name = "avoid" -> 4
    [] name = "chase" -> 5
    [] name = "update" -> 6
    [] name = "draw" -> 7

\* C9: for each agent in each tick the calls happen in the order neighbour
\* classification, shoal or wander, boundaries, avoid, chase, update, draw; no
\* behaviour call for the agent happens after its update.
C9_CallOrder ==
  trace.ticks > 0 =>
    \A i \in 1..Len(creatures) :
      LET cs == CallsOn(i)
      IN  cs # <<>> =>
          /\ \A a, b \in 1..Len(cs) : a < b => Rank(cs[a][2]) <= Rank(cs[b][2])
          /\ Count(i, "categorizeFishByMass") = 1
          /\ Count(i, "shoal") + Count(i, "wander") = 1
          /\ Count(i, "boundaries") = 1
          /\ Count(i, "avoid") <= 1
          /\ Count(i, "chase") <= 1
          /\ Count(i, "update") = 1
          /\ Count(i, "draw") = 1
          /\ \A a \in 1..Len(cs) : cs[a][2] = "update" => a = Len(cs) - 1

\* A tick in which one fish avoided a bigger one and the other chased the
\* smaller one.
C9_Witness ==
  /\ trace.ticks = 1
  /\ Count(1, "avoid") = 1
  /\ Count(2, "chase") = 1
  /\ Count(2, "wander") = 1

(***************************************************************************)
(* Adaptive quality and the population                                     *)
(***************************************************************************)
\* The FPS band of a tier: below fpsThreshold.low, from there to below
\* fpsThreshold.medium, and from fpsThreshold.medium on.
inBand(fps, tier) ==
  CASE tier = "low" -> fps < fpsThresholdLow
    [] tier = "medium" -> fps >= fpsThresholdLow /\ fps < fpsThresholdMedium
    [] tier = "high" -> fps >= fpsThresholdMedium

\* The last step evaluated the FPS window.
Evaluated == trace.by \in {"frame", "display"}

\* C11: the tier changes at an evaluation only if every sample of the window
\* lies in the band of the new tier, and the tier never changes at one
\* evaluation and changes back at the next.
C11_TierChangeNeedsFullWindow ==
  /\ (Evaluated /\ sim.currentQuality # trace.before.quality) =>
       \A i \in 1..Len(sim.fpsHistory) : inBand(sim.fpsHistory[i], sim.currentQuality)
  /\ \A k \in 3..Len(trace.tiers) :
       ~(trace.tiers[k - 1] # trace.tiers[k - 2] /\ trace.tiers[k] = trace.tiers[k - 2])

\* C11: after the samples 40 (five times) and 20 (five times) the average 30
\* made the tier medium; one more 20 made it low, and then a 60 brings it back
\* to medium on a window of averages 30 that holds 20s and a 60.
C11_FlipsBack ==
  /\ trace.by = "frame"
  /\ sim.fpsHistory = <<40, 40, 40, 20, 20, 20, 20, 20, 20, 60>>
  /\ trace.tiers = <<"high", "medium", "low", "medium">>
  /\ sim.currentQuality = "medium"

\* The window that was evaluated is full and every sample in it is below
\* fpsThreshold.low.
SlowWindow ==
  /\ Evaluated
  /\ Len(sim.fpsHistory) = fpsHistorySize
  /\ \A i \in 1..Len(sim.fpsHistory) : sim.fpsHistory[i] < fpsThresholdLow

\* C12: after updateAdaptiveQuality evaluated a full window of samples that are
\* all below 30, the tier is low and there are at most qualityLevels.low.fishMax
\* fish, whatever the tier and the number of fish were before.
C12_SlowWindowGivesLow ==
  SlowWindow =>
    /\ sim.currentQuality = "low"
    /\ Len(creatures) <= lowFishMax
    /\ sim.qualityLevels.low.fishMax = lowFishMax * FishUnit

\* C12: a window of samples below 30 was evaluated in the medium tier with 60
\* fish; the tier is low and 30 fish are left.
C12_Witness ==
  /\ SlowWindow
  /\ trace.before.quality = "medium"
  /\ trace.before.count = mediumFishMax
  /\ sim.currentQuality = "low"
  /\ Len(creatures) = lowFishMax

\* C12: the same from the high tier with the 250 fish options.numFish asked for.
C12_WitnessFromHigh ==
  /\ SlowWindow
  /\ trace.before.quality = "high"
  /\ trace.before.count > MAX_FISH
  /\ sim.currentQuality = "low"
  /\ Len(creatures) = lowFishMax

\* C13: after initialisation, every resize and every tier transition the number
\* of fish lies between MIN_FISH and MAX_FISH, for every options.numFish and
\* every canvas width.
C13_FishCountInRange ==
  /\ MIN_FISH <= Len(creatures)
  /\ Len(creatures) <= MAX_FISH

\* C13: options.numFish = 250 was taken as it is; after construction, the first
\* measurements and a resize there are still 250 fish in the high tier.
C13_TooManyFish ==
  /\ trace.by = "resize"
  /\ sim.currentQuality = "high"
  /\ Len(creatures) > MAX_FISH

\* C13: on a canvas 300 pixels wide, without options.numFish, initFish made 25
\* fish.
C13_TooFewFish ==
  /\ trace.by = "call"
  /\ sim.canvasWidth < MIN_FISH * FishUnit
  /\ Len(creatures) < MIN_FISH

\* The number of entries equal to name among the first n entries of the log
\* of the last step.
Logged(name, n) == Cardinality({j \in 1..n : trace.log[j] = name})

\* C14: world.creatures is never pushed to, sliced or assigned while the loop
\* of a tick iterates over it: whenever a handler changes the population, every
\* loop it began before has ended.
C14_PopulationChangesBetweenTicks ==
  \A i \in 1..Len(trace.log) :
    trace.log[i] \in {"push", "replace"} => Logged("loop", i) = Logged("end", i)

\* C14: a frame that evaluated the FPS window, cut the population down to the
\* new tier and then ran the tick, in that order.
C14_Witness ==
  /\ trace.by = "frame"
  /\ trace.log = <<"replace", "loop", "end">>
  /\ Len(creatures) < trace.before.count
  /\ trace.ticks = 1

(***************************************************************************)
(* Slow motion                                                             *)
(***************************************************************************)
\* C15: no step changes the tick interval by more than one unit, so the
\* interval never goes from NORMAL_INTERVAL to SLOW_INTERVAL or back in a
\* single step.
C15_IntervalStepsByOne ==
  [][Abs(sim'.interval - sim.interval) <= 1]_vars

\* C15: the first release of the space key has put the interval at
\* SLOW_INTERVAL and the alpha at SLOW_ALPHA in one step.
C15_Snapped ==
  /\ trace.by = "key"
  /\ trace.keys = 1
  /\ sim.interval = SLOW_INTERVAL
  /\ sim.alpha = SLOW_ALPHA

\* C16: starting from normal speed, after an odd number of releases of the
\* space key the interval is SLOW_INTERVAL and after an even number it is
\* NORMAL_INTERVAL.
C16_KeyToggles ==
  sim.interval = IF trace.keys % 2 = 1 THEN SLOW_INTERVAL ELSE NORMAL_INTERVAL

\* C16: two releases of the space key have been handled, and the interval is
\* SLOW_INTERVAL with slowmo false.
C16_StillSlow ==
  /\ trace.by = "key"
  /\ trace.keys = 2
  /\ sim.interval = SLOW_INTERVAL
  /\ ~sim.slowmo

(***************************************************************************)
(* Construction                                                            *)
(***************************************************************************)
\* C17: the constructor throws if the canvas or the off-screen canvas gives
\* no 2D context and returns otherwise, and when it throws no event listener
\* is registered, no fish exists and no tick, timer or animation frame has run
\* or is scheduled.
C17_ThrowsBeforeAnySetup ==
  /\ trace.by = "new" => (trace.options.context /\ trace.options.offscreenContext)
  /\ trace.by = "throw" =>
    /\ ~(trace.options.context /\ trace.options.offscreenContext)
    /\ browser.listeners = {}
    /\ browser.mediaQueryLists = <<>>
    /\ creatures = <<>>
    /\ trace.ticks = 0
    /\ trace.log = <<>>
    /\ browser.intervals = {}
    /\ browser.frames = {}
    /\ sim = NoValue

\* C17: the canvas gave a context, the off-screen canvas did not, and the
\* constructor threw.
C17_Witness ==
  /\ trace.by = "throw"
  /\ trace.thrown = "Could not get offscreen canvas context"

\* C17: the canvas itself gave no context, and the constructor threw.
C17_WitnessCanvas ==
  /\ trace.by = "throw"
  /\ trace.thrown = "Could not get canvas context"

C19_EmptyListNoForce ==
  (ret.op # "none" /\ args.neighbors = <<>>) =>
    /\ ret.op \in {"shoal", "avoid", "chase"} => ret.value = args.fish
    /\ ret.op \in {"separate", "align", "cohesion"} => ret.value = Zero
    /\ ret.divisions = 0

\* C19: shoal([]) was called on a moving fish whose acceleration was not zero.
C19_Witness ==
  /\ ret.op = "shoal"
  /\ args.neighbors = <<>>
  /\ args.fish.velocity # Zero
  /\ args.fish.acceleration # Zero
  /\ ret.value.acceleration = args.fish.acceleration

\* With neighbours the same calls do produce a force.
C19_ForceWithNeighbours ==
  /\ ret.op = "shoal"
  /\ args.neighbors # <<>>
  /\ ret.value.acceleration # args.fish.acceleration
  /\ ret.divisions = 3

(***************************************************************************)
(* SpatialGrid.updateGrid, repeated                                        *)
(***************************************************************************)
\* C20: updateGrid called again with the same fish, none of which moved since
\* the call before, leaves the mapping from cells to fish as that call made it.
C20_UpdateGridIdempotent ==
  [][(args'.op = "updateGrid" /\ args'.repeated) => cells' = cells]_vars

\* C20: updateGrid has just been repeated on fish that share a cell.
C20_Witness ==
  /\ args.op = "updateGrid"
  /\ args.repeated
  /\ gridState = "fresh"
  /\ \E k \in DOMAIN cells : Len(cells[k]) = NumFish
  /\ cells = updateGrid(clearCells, creatures)

(***************************************************************************)
(* Vector.limit                                                            *)
(***************************************************************************)
\* What the rounding of the two components to the fixed-point grid can take
\* from a magnitude, in units of the grid.
Rounding == 2

\* r points the way v does, up to the rounding of its components.
sameDirection(v, r) ==
  /\ v.x * r.x + v.y * r.y > 0
  /\ Abs(v.x * r.y - v.y * r.x) <= Abs(v.x) + Abs(v.y)

C21_WitnessAtLimit ==
  /\ ret.op = "limit"
  /\ args.this = Vector(0 - Px(3), Px(4))
  /\ args.l = Px(5)
  /\ ret.value = args.this

(***************************************************************************)
(* Fish ids                                                                *)
(***************************************************************************)
\* The ids in world.creatures grow along the list, and all are below the next
\* value of Fish.uid.
idsInOrder(fishes, uid) ==
  /\ \A i \in 1..Len(fishes) : fishes[i].ID < uid
  /\ \A i \in 1..(Len(fishes) - 1) : fishes[i].ID < fishes[i + 1].ID

\* C22: every fish gets an id that is greater than the id of every fish
\* created before it, the fish spawned by quality scaling or by a resize
\* included: the ids handed out so far are all below Fish.uid, Fish.uid never
\* goes back, and every fish a step adds has an id from the old Fish.uid on.
C22_IdsUniqueAndGrowing ==
  /\ [](idsInOrder(creatures, sim.uid))
  /\ [][/\ sim'.uid >= sim.uid
         /\ \A i \in 1..Len(creatures') :
              \/ creatures'[i].ID >= sim.uid
              \/ \E j \in 1..Len(creatures) : creatures[j].ID = creatures'[i].ID]_vars

\* C22: a tier transition has spawned fish after an earlier one had removed
\* some: the last id is the newest, and ids of removed fish are not reused.
C22_Witness ==
  /\ trace.by = "frame"
  /\ trace.log = <<"push", "loop", "end">>
  /\ Len(creatures) > trace.before.count
  /\ creatures[Len(creatures)].ID = sim.uid - 1
  /\ sim.uid > Len(creatures)

(***************************************************************************)
(* Slow motion transitions under repeated key releases                     *)
(***************************************************************************)
\* No transition timeout is pending, one repeating timer runs, and the interval
\* is the one the slowmo flag asks for.
Settled ==
  /\ pending = 0
  /\ Cardinality(browser.intervals) = 1
  /\ sim.interval = IF sim.slowmo THEN SLOW_INTERVAL ELSE NORMAL_INTERVAL

C24_ConeExcludesNoNeighbour ==
  ret.op = "filterVisibleNeighbors" =>
    ret.value = SelectSeq(args.nearbyFish, LAMBDA creature : creature # 1)

\* C24: the fish heads along +y and its neighbour is straight ahead of it; the
\* neighbour was nearby and is not in the list returned.
C24_NeighbourAheadExcluded ==
  /\ ret.op = "filterVisibleNeighbors"
  /\ creatures[1].velocity = Vector(0, Px(1))
  /\ creatures[2].location = Vector(Px(100), Px(101))
  /\ args.nearbyFish = <<1, 2>>
  /\ ret.value = <<>>


(***************************************************************************)
(* Shoal or wander                                                         *)
(***************************************************************************)
\* The fish the loop of the last tick processed, with the lists found for them.
Processed == {trace.found[n] : n \in 1..Len(trace.found)}

\* C25: in each tick, for each processed agent, exactly one of shoal and wander
\* is invoked: shoal if and only if the agent's similar list is non-empty,
\* wander if and only if it is empty.
C25_ShoalOrWander ==
  trace.ticks > 0 =>
    /\ \A i \in 1..Len(creatures) :
         Count(i, "categorizeFishByMass") =
           Cardinality({p \in Processed : p.fish = i})
    /\ \A p \in Processed :
         /\ Count(p.fish, "shoal") + Count(p.fish, "wander") = 1
         /\ Count(p.fish, "shoal") = 1 <=> p.lists.similar # <<>>
         /\ Count(p.fish, "wander") = 1 <=> p.lists.similar = <<>>

\* C25: a tick in which one fish had a smaller neighbour only and wandered
\* while chasing it.
C25_Witness ==
  /\ trace.ticks = 1
  /\ \E p \in Processed :
       /\ p.lists.similar = <<>>
       /\ p.lists.smaller # <<>>
       /\ Count(p.fish, "wander") = 1

\* C25: a tick in which both fish found each other similar and shoaled.
C25_WitnessShoal ==
  /\ trace.ticks = 1
  /\ \A i \in 1..Len(creatures) :
       /\ Count(i, "shoal") = 1
       /\ \E p \in Processed : p.fish = i /\ p.lists.similar # <<>>


(***************************************************************************)
(* The population after a tier transition                                  *)
(***************************************************************************)
\* The ids of the fish, in list order.
Ids(fishes) == [i \in 1..Len(fishes) |-> fishes[i].ID]

\* One list is the beginning of the other.
isPrefix(a, b) == Len(a) <= Len(b) /\ a = SubSeq(b, 1, Len(a))

\* This step is a frame or a display change that moves to another tier.
TierTransition ==
  /\ trace'.by \in {"frame", "display"}
  /\ sim'.currentQuality # sim.currentQuality

\* fishMax of the tier the step ends in, in twelfths of a fish.
targetAfter == sim'.qualityLevels[sim'.currentQuality].fishMax

C26_WitnessCut ==
  /\ trace.by = "frame"
  /\ trace.before = [quality |-> "medium", count |-> 60]
  /\ sim.currentQuality = "high"
  /\ sim.qualityLevels.high.fishMax = 640
  /\ Len(creatures) = 53


(***************************************************************************)
(* The detail level of the fish                                            *)
(***************************************************************************)
\* C27: in every state between ticks, every agent's detailLevel is the
\* detailLevel of the current quality tier, agents spawned after the latest
\* tier transition (by a resize, say) included.
C27_DetailLevelOfTier ==
  \A i \in 1..Len(creatures) :
    creatures[i].detailLevel = sim.qualityLevels[sim.currentQuality].detailLevel

\* C27: the simulation left the high tier and came back to it, and a resize
\* then spawned fish.
C27_Witness ==
  /\ trace.by = "resize"
  /\ Len(trace.tiers) >= 3
  /\ trace.tiers[Len(trace.tiers) - 1] # "high"
  /\ sim.currentQuality = "high"
  /\ Len(creatures) > trace.before.count
  /\ creatures[Len(creatures)].detailLevel = 3

\* C27: a resize to a wider canvas in the low tier, which spawns nothing; the
\* fish carry detail level 1.
C27_WitnessLow ==
  /\ trace.by = "resize"
  /\ sim.currentQuality = "low"
  /\ sim.canvasWidth = 1000
  /\ Len(creatures) = 30
  /\ creatures[30].detailLevel = 1


(***************************************************************************)
(* The tier while the FPS window fills                                     *)
(***************************************************************************)
\* C28: the quality tier never changes while fewer than fpsHistorySize FPS
\* samples have been recorded.
C28_NoChangeBeforeFullWindow ==
  [][Len(sim'.fpsHistory) < fpsHistorySize => sim'.currentQuality = sim.currentQuality]_vars

\* C28: nine samples of 20 FPS are recorded, the last by a frame, and the tier
\* is the one of construction.
C28_Witness ==
  /\ trace.by = "frame"
  /\ sim.fpsHistory = [i \in 1..(fpsHistorySize - 1) |-> 20]
  /\ sim.currentQuality = "high"
  /\ trace.tiers = [i \in 1..fpsHistorySize |-> "high"]

\* C28: the tenth sample of 20 FPS moves the simulation to the low tier.
C28_WitnessFull ==
  /\ sim.fpsHistory = [i \in 1..fpsHistorySize |-> 20]
  /\ trace.before.quality = "high"
  /\ sim.currentQuality = "low"


(***************************************************************************)
(* The fish after a resize                                                 *)
(***************************************************************************)
\* C29: after resize() returns, every agent's location satisfies
\* 0 <= x <= world.width and 0 <= y <= world.height, for every new canvas size
\* and every agent position before the resize.
C29_ResizeKeepsFishInWorld ==
  ret.op = "resize" =>
    \A i \in 1..Len(creatures) :
      /\ 0 <= creatures[i].location.x /\ creatures[i].location.x <= sim.world.width
      /\ 0 <= creatures[i].location.y /\ creatures[i].location.y <= sim.world.height

\* C29: Simulation.ts; the canvas shrank from 800 to 80 wide, and the fish that
\* was at x = 400 is at x = 80 - RESIZE_PADDING = -20.
C29_LeftOfWorld ==
  /\ ret.op = "resize"
  /\ ret.revision = "timers"
  /\ ret.before.x = Px(400)
  /\ sim.world.width = Px(80)
  /\ creatures[1].location.x = 0 - Px(20)

\* C29: the requestAnimationFrame revision; the canvas shrank from 800 to 30
\* wide, and the fish that was at x = 400 is at x = 30 - BOUNDARY_DISTANCE = -20.
C29_LeftOfWorldRaf ==
  /\ ret.op = "resize"
  /\ ret.revision = "frames"
  /\ ret.before.x = Px(400)
  /\ sim.world.width = Px(30)
  /\ creatures[1].location.x = 0 - Px(20)


(***************************************************************************)
(* The fish after a bounce                                                 *)
(***************************************************************************)
\* The fish is at or beyond an edge of the world.
atOrBeyondEdge(fish, world) ==
  \/ fish.location.x <= 0
  \/ fish.location.x >= world.width
  \/ fish.location.y <= 0
  \/ fish.location.y >= world.height

\* The fish is at least one pixel inside the world.
onePixelInside(fish, world) ==
  /\ Px(1) <= fish.location.x /\ fish.location.x <= world.width - Px(1)
  /\ Px(1) <= fish.location.y /\ fish.location.y <= world.height - Px(1)

C30_WitnessOnEdge ==
  /\ ret.op = "boundaries"
  /\ args.world = [width |-> Px(800), height |-> Px(600)]
  /\ args.fish.location = Vector(0, Px(300))
  /\ ret.value.location = Vector(Px(1), Px(300))

\* C30: in a world 0 by 0 the fish at (0, 0) is put at (1, 1), outside it.
C30_OutsideEmptyWorld ==
  /\ ret.op = "boundaries"
  /\ args.world = [width |-> 0, height |-> 0]
  /\ args.fish.location = Vector(0, 0)
  /\ ret.value.location = Vector(Px(1), Px(1))


(***************************************************************************)
(* Mouse and touch                                                         *)
(***************************************************************************)
\* C31: a touchend event whose changedTouches holds two or more touches toggles
\* the behaviour visualisation: showBehavior after the event is the negation of
\* showBehavior before it.
C31_TwoFingersToggle ==
  [][(trace'.by = "touchend" /\ trace'.changed >= 2) =>
       sim'.showBehavior = ~sim.showBehavior]_vars

\* C31: two fingers were lifted together and the visualisation is off, as it
\* was at construction, although this was the first event to reach a handler
\* that can change it after the touchstart.
C31_QuickTwoFingerTapUndone ==
  /\ trace.by = "touchend"
  /\ trace.changed = 2
  /\ browser.clock = InputStart + 200
  /\ sim.lastTouchTime = browser.clock
  /\ ~sim.showBehavior


\* The fields a mouse handler can write.
pointerFields(s) ==
  [mouse |-> s.mouse, follow |-> s.follow, mouseDownTime |-> s.mouseDownTime,
   showBehavior |-> s.showBehavior]

\* C37: a mousemove, mousedown or mouseup event that arrives less than
\* TOUCH_MOUSE_PREVENTION_TIMEOUT after the most recent touch event leaves the
\* pointer position, follow, mouseDownTime and showBehavior unchanged.
C37_MouseIgnoredAfterTouch ==
  [][(/\ trace'.by \in {"mousemove", "mousedown", "mouseup"}
      /\ sim.lastTouchTime > 0
      /\ browser.clock - sim.lastTouchTime < TOUCH_MOUSE_PREVENTION_TIMEOUT) =>
       pointerFields(sim') = pointerFields(sim)]_vars

\* C37: no touchstart reached the instance, the latest touch event was a
\* touchend 200 ms ago, and a mousedown has just set follow.
C37_MouseDownAfterTouchEnd ==
  /\ trace.by = "mousedown"
  /\ ~sim.isTouchDevice
  /\ sim.lastTouchTime = browser.clock - 200
  /\ sim.follow
  /\ sim.mouseDownTime = browser.clock

\* C37, once a touchstart was handled: such a mouse event changes none of the
\* four fields.
C37_MouseIgnoredOnTouchDevice ==
  [][(/\ trace'.by \in {"mousemove", "mousedown", "mouseup"}
      /\ sim.isTouchDevice
      /\ browser.clock - sim.lastTouchTime < TOUCH_MOUSE_PREVENTION_TIMEOUT) =>
       pointerFields(sim') = pointerFields(sim)]_vars


(***************************************************************************)
(* Separation without a close neighbour                                    *)
(***************************************************************************)
\* No fish of the list is closer to the fish than range.
noneCloser(fish, neighbors, range) ==
  \A n \in 1..Len(neighbors) : ~distLess(fish.location, neighbors[n].location, range)

\* C32: separate(neighbors, range) returns the zero vector whenever no
\* neighbour lies closer than range.
C32_NoCloseNeighbourNoForce ==
  (/\ ret.op = "separate"
   /\ noneCloser(args.fish, args.neighbors, args.fish.separationRange)) =>
    ret.value = Zero

\* C32: the only neighbour is 20 pixels away, the range is 15; separate
\* returns the opposite of the velocity, capped at maxforce, not zero.
C32_BrakesWithoutCloseNeighbour ==
  /\ ret.op = "separate"
  /\ args.fish.mass = 50
  /\ args.neighbors = <<Neighbour(2)>>
  /\ noneCloser(args.fish, args.neighbors, args.fish.separationRange)
  /\ ret.value # Zero
  /\ ret.value = limit(sub(Zero, args.fish.velocity), args.fish.maxforce)


(***************************************************************************)
(* What one pass of the loop writes                                        *)
(***************************************************************************)
\* The fields of a fish the behaviours and the integration work on.
motionOf(fish) ==
  [location |-> fish.location, velocity |-> fish.velocity,
   acceleration |-> fish.acceleration, mass |-> fish.mass]

\* C33: running one agent's behaviours and integration in a tick (follow, shoal
\* or wander, boundaries, avoid, chase, update) leaves the location, velocity,
\* acceleration and mass of every other agent unchanged.
C33_OthersUntouched ==
  [][trace'.next = trace.next + 1 =>
       \A j \in 1..Len(creatures) :
         j # trace.next => motionOf(creatures'[j]) = motionOf(creatures[j])]_vars

\* C33: the second fish has just been processed; it chased the first one, which
\* had moved in its own pass, and it moved itself.
C33_Witness ==
  /\ trace.next = 3
  /\ Len(SelectSeq(trace.calls, LAMBDA c : c = <<2, "chase">>)) = 1
  /\ Len(SelectSeq(trace.calls, LAMBDA c : c = <<2, "update">>)) = 1
  /\ creatures[1].location \notin TickPoints
  /\ creatures[2].location \notin TickPoints


(***************************************************************************)
(* A fish is not its own neighbour                                         *)
(***************************************************************************)
\* No other fish is inside the lookRange of fish i.
alone(fishes, i) ==
  \A j \in 1..Len(fishes) :
    j # i => ~distWithin(fishes[i].location, fishes[j].location, fishes[i].lookRange)

\* C34: an agent never appears in its own bigger, similar or smaller list, even
\* though the grid query centred on its own location returns it; consequently
\* an agent with no other agent inside its lookRange always takes the wander
\* branch.
C34_NeverOwnNeighbour ==
  [][trace'.next = trace.next + 1 =>
       LET i == trace.next
           p == trace'.found[Len(trace'.found)]
       IN  /\ Len(trace'.found) = Len(trace.found) + 1
           /\ p.fish = i
           /\ i \in SeqToSet(query(cells, creatures, creatures[i].location,
                                   creatures[i].lookRange))
           /\ i \notin SeqToSet(p.lists.bigger \o p.lists.similar \o p.lists.smaller)
           /\ alone(creatures, i) =>
                /\ p.lists = [bigger |-> <<>>, similar |-> <<>>, smaller |-> <<>>]
                /\ <<i, "wander">> \in SeqToSet(trace'.calls)
                /\ <<i, "shoal">> \notin SeqToSet(trace'.calls)]_vars

\* C34: the first fish, of mass 0.5 and lookRange 100, has been processed with
\* the other fish 150 pixels or more away: its three lists are empty and it
\* wandered.
C34_Witness ==
  /\ trace.next = 2
  /\ creatures[1].mass = 50
  /\ creatures[2].location = Vector(-Px(50), Px(100))
  /\ trace.found[1] = [fish |-> 1,
                       lists |-> [bigger |-> <<>>, similar |-> <<>>, smaller |-> <<>>]]
  /\ <<1, "wander">> \in SeqToSet(trace.calls)


(***************************************************************************)
(* The range of the interval                                               *)
(***************************************************************************)
\* C35: in every reachable state, for any interleaving of space-key releases
\* and timer callbacks, NORMAL_INTERVAL <= interval <= SLOW_INTERVAL.
C35_IntervalInRange ==
  NORMAL_INTERVAL <= sim.interval /\ sim.interval <= SLOW_INTERVAL

\* C35: a callback of fast() has just run with the interval at NORMAL_INTERVAL
\* while a callback of slow() is still pending.
C35_Witness ==
  /\ trace.by = "timeout"
  /\ trace.keys = 2
  /\ sim.interval = NORMAL_INTERVAL
  /\ browser.timeouts.slow > 0
  /\ browser.timeouts.fast = 0

\* C35: the interval is at SLOW_INTERVAL while a callback of fast() is pending.
C35_WitnessSlow ==
  /\ sim.interval = SLOW_INTERVAL
  /\ browser.timeouts.fast > 0

(***************************************************************************)
(* C36: at most one setInterval timer of the instance is active            *)
(***************************************************************************)
\* C36: in every state reached by start(), stop(), cleanup(), releases of the
\* space key and the callbacks of pending transition timeouts, at most one
\* repeating timer created by the instance is active, and it is the one
\* this.timeline refers to.
C36_AtMostOneTimer ==
  /\ Cardinality(browser.intervals) <= 1
  /\ browser.intervals = IF sim.timeline = 0 THEN {} ELSE {sim.timeline}

\* A transition chain ended and installed the timer while a callback of the
\* other chain is still pending.
C36_Witness ==
  /\ trace.by = "timeout"
  /\ Cardinality(browser.intervals) = 1
  /\ pending > 0
  /\ trace.keys >= 2

\* start() called on a running instance replaces the timer.
C36_WitnessStart ==
  /\ trace.by = "call"
  /\ ~trace.stopped
  /\ trace.ticks > 0
  /\ Cardinality(browser.intervals) = 1

(***************************************************************************)
(* hooks/usePartyEngine: the effect, its cleanup and the pending creation   *)
(***************************************************************************)
\* Runs of the effect in one behaviour.
MaxEffects == 3

\* Engine i is the one createPartyEngine makes for run i of the effect; its
\* Interaction carries the same number.  0 stands for null.
NoEngine == [initialized |-> FALSE, stopCalled |-> FALSE, destroyCalled |-> FALSE]

\* try { e.stop() } catch {}; void e.destroy(): a throw of stop() is caught,
\* so destroy() is called either way.
stopAndDestroy(st, e) ==
  [st EXCEPT !.browser.engines[e].stopCalled = TRUE,
             !.browser.engines[e].destroyCalled = TRUE]

\* The effect body: cancelled = false; void start(), which runs up to the
\* await of createPartyEngine unless the hook is disabled or has no canvas.
usePartyEngineStart(st, enabled, canvas) ==
  [st EXCEPT !.browser.effects =
               Append(@, [cancelled |-> FALSE,
                          call |-> IF enabled /\ canvas THEN "pending" ELSE "none"]),
             !.browser.mounted = TRUE]

\* The continuation of start() with the cancelled test left out
resumed_Unchecked(st0, i, createdIsGpu) ==
  [st0 EXCEPT !.browser.effects[i].call = "resolved",
              !.browser.engines[i].initialized = TRUE,
              !.sim.engineRef = i,
              !.sim.interactionRef = i,
              !.sim.engine = i,
              !.sim.isGpu = IF createdIsGpu THEN "gpu" ELSE "cpu"]

\* The continuation of start() once createPartyEngine has resolved for run i
resumed(st0, i, createdIsGpu) ==
  LET st == [st0 EXCEPT !.browser.effects[i].call = "resolved",
                        !.browser.engines[i].initialized = TRUE]
  IN  IF st.browser.effects[i].cancelled
        THEN stopAndDestroy(st, i)
        ELSE [st EXCEPT !.sim.engineRef = i,
                        !.sim.interactionRef = i,
                        !.sim.engine = i,
                        !.sim.isGpu = IF createdIsGpu THEN "gpu" ELSE "cpu"]

\* The function the effect returns, for the latest run of the effect
usePartyEngineCleanup(st0) ==
  LET i == Len(st0.browser.effects)
      st == [st0 EXCEPT !.browser.effects[i].cancelled = TRUE,
                        !.browser.mounted = FALSE]
      prev == st.sim.engineRef
      st2 == IF prev # 0 THEN stopAndDestroy(st, prev) ELSE st
  IN  [st2 EXCEPT !.sim.engineRef = 0,
                  !.sim.interactionRef = 0,
                  !.sim.engine = 0,
                  !.sim.isGpu = "null"]

Hook(s, b) == [sim |-> s, browser |-> b]

\* trace.late holds the runs cleaned up while their creation was pending.
BecomesParty(st, by) ==
  /\ sim' = st.sim
  /\ browser' = st.browser
  /\ trace' = [by |-> by,
               late |-> trace.late \cup
                        {i \in 1..Len(browser.effects) :
                           /\ browser.effects[i].call = "pending"
                           /\ ~browser.effects[i].cancelled
                           /\ st.browser.effects[i].cancelled}]
  /\ UNCHANGED <<gridVars, callVars>>

\* The component has rendered; no effect has run yet.
PartyInit ==
  /\ NoWorld
  /\ NoCall
  /\ sim = [engineRef |-> 0, interactionRef |-> 0, engine |-> 0, isGpu |-> "null"]
  /\ browser = [effects |-> <<>>, mounted |-> FALSE,
                engines |-> [e \in 1..MaxEffects |-> NoEngine]]
  /\ trace = [by |-> "render", late |-> {}]

\* The component mounts, or mounts again: the effect runs.
PartyMount ==
  /\ ~browser.mounted
  /\ Len(browser.effects) < MaxEffects
  /\ \E enabled \in BOOLEAN, canvas \in BOOLEAN :
       BecomesParty(usePartyEngineStart(Hook(sim, browser), enabled, canvas), "mount")

\* The component unmounts: the cleanup runs.
PartyUnmount ==
  /\ browser.mounted
  /\ BecomesParty(usePartyEngineCleanup(Hook(sim, browser)), "unmount")

\* A dependency changed: the cleanup of the last run, then the effect again.
PartyRerun ==
  /\ browser.mounted
  /\ Len(browser.effects) < MaxEffects
  /\ \E enabled \in BOOLEAN, canvas \in BOOLEAN :
       BecomesParty(usePartyEngineStart(usePartyEngineCleanup(Hook(sim, browser)),
                                        enabled, canvas), "rerun")

\* createPartyEngine resolves for a run whose call is pending.
PartyResolved ==
  \E i \in 1..Len(browser.effects), createdIsGpu \in BOOLEAN :
    /\ browser.effects[i].call = "pending"
    /\ BecomesParty(resumed(Hook(sim, browser), i, createdIsGpu), "resolved")

\* createPartyEngine rejects (engine.initialize() failed): start() ends there.
PartyRejected ==
  \E i \in 1..Len(browser.effects) :
    /\ browser.effects[i].call = "pending"
    /\ BecomesParty([Hook(sim, browser) EXCEPT !.browser.effects[i].call = "rejected"],
                    "rejected")

PartyNext ==
  \/ PartyMount
  \/ PartyUnmount
  \/ PartyRerun
  \/ PartyResolved
  \/ PartyRejected

SpecParty == PartyInit /\ [][PartyNext]_vars

(***************************************************************************)
(* C38: an engine resolved after the cleanup is discarded                   *)
(***************************************************************************)
\* C38: for every run of the effect that was cleaned up while its
\* createPartyEngine call was pending, the engine of that call is never held
\* by engineRef, interactionRef or the engine state, and once the call has
\* resolved stop() and destroy() have been called on it.
C38_LateEngineDiscarded ==
  \A i \in trace.late :
    /\ sim.engineRef # i
    /\ sim.interactionRef # i
    /\ sim.engine # i
    /\ browser.effects[i].call = "resolved" =>
         /\ browser.engines[i].stopCalled
         /\ browser.engines[i].destroyCalled

\* The first run was cleaned up while pending and resolved after the second
\* run had stored its own engine: the late engine is discarded, the stored
\* one is left alone.
C38_Witness ==
  /\ trace.by = "resolved"
  /\ 1 \in trace.late
  /\ browser.effects[1].call = "resolved"
  /\ browser.engines[1].destroyCalled
  /\ sim.engineRef = 2
  /\ ~browser.engines[2].destroyCalled

\* The late engine resolves while the component is unmounted.
C38_WitnessUnmounted ==
  /\ trace.by = "resolved"
  /\ ~browser.mounted
  /\ trace.late # {}
  /\ \E i \in trace.late : browser.engines[i].destroyCalled
  /\ sim.engineRef = 0

(***************************************************************************)
(* components/FishCanvas: the engine startup effect, its cleanup and the    *)
(* asynchronous steps of start()                                            *)
(***************************************************************************)
\* Runs of the startup effect in one behaviour (a mount and a remount that
\* keeps the refs, as React StrictMode does).
MaxMounts == 2

\* Engines and destroyEngine promises are numbered in order of creation;
\* 0 stands for null.  A run of start() is at one of its awaits:
\*   "sleep", "fetch", "inFlight", "destroyOld", "destroyStale", "initialize",
\*   "apply", "destroyCancelled", "destroyFailed", or it is "done".
\* promises[p] tells whether promise p has settled; queue lists the runs that
\* await a destroyEngine promise, in the order they began to wait, which is
\* the order their continuations run in once the promise settles.
Canvas(s, b) == [sim |-> s, browser |-> b]

\* const isStale = () => cancelled || startupTokenRef.current !== myToken
isStale(st, i) ==
  \/ st.browser.runs[i].cancelled
  \/ st.sim.startupTokenRef # st.browser.runs[i].myToken

\* start() of run i moves to the await named pc
at(st, i, pc) == [st EXCEPT !.browser.runs[i].pc = pc]

\* destroyEngine(engine) up to its await: the flag is cleared, stop() and
\* destroy() are called; the promise it returns is the last of promises.
destroyEngine(st, e) ==
  [st EXCEPT !.sim.engineReadyRef = FALSE,
             !.browser.engines[e].destroyed = TRUE,
             !.browser.promises = Append(@, FALSE)]

\* await of destroyEngine promise p by run i, at the await named pc
await(st, i, p, pc) ==
  [st EXCEPT !.browser.runs[i].pc = pc,
             !.browser.runs[i].awaits = p,
             !.browser.queue = Append(@, i)]

\* destroyInFlightRef.current = destroyEngine(e); await destroyInFlightRef.current
destroyAndWait(st, i, e, pc) ==
  LET st2 == destroyEngine(st, e)
      p == Len(st2.browser.promises)
  IN  await([st2 EXCEPT !.sim.destroyInFlightRef = p], i, p, pc)

\* tryStartWithRuntime(runtime) up to its first await
tryStartWithRuntime(st, i, attempt) ==
  LET e == Len(st.browser.engines) + 1
      st2 == [st EXCEPT !.browser.engines =
                           Append(@, [initialized |-> FALSE, destroyed |-> FALSE]),
                        !.sim.engineRef = e,
                        !.sim.engineReadyRef = FALSE,
                        !.browser.runs[i].engine = e,
                        !.browser.runs[i].attempt = attempt]
  IN  IF isStale(st2, i)
        THEN destroyAndWait(st2, i, e, "destroyStale")
        ELSE at(st2, i, "initialize")

\* if (engineRef.current) { destroy it, await, engineRef.current = null }
destroyOld(st, i) ==
  IF st.sim.engineRef # 0
    THEN destroyAndWait(st, i, st.sim.engineRef, "destroyOld")
    ELSE tryStartWithRuntime(st, i, 1)

\* start() once the session has been fetched; the await of a promise that
\* has settled already goes on at once.
serialize(st, i) ==
  IF st.sim.destroyInFlightRef # 0
    THEN IF st.browser.promises[st.sim.destroyInFlightRef]
           THEN destroyOld([st EXCEPT !.sim.destroyInFlightRef = 0], i)
           ELSE await(st, i, st.sim.destroyInFlightRef, "inFlight")
    ELSE destroyOld(st, i)

\* start() after an await of a destroyEngine promise
afterDestroy(st0, i) ==
  LET pc == st0.browser.runs[i].pc
      st == [st0 EXCEPT !.sim.destroyInFlightRef = 0]
  IN  CASE pc = "inFlight" -> destroyOld(st, i)
        [] pc = "destroyOld" ->
             tryStartWithRuntime([st EXCEPT !.sim.engineRef = 0], i, 1)
        [] pc = "destroyFailed" ->
             tryStartWithRuntime([st EXCEPT !.sim.engineRef = 0], i, 2)
        [] OTHER -> at(st, i, "done")

\* Promise p settles: the runs that await it go on, first come first.
RECURSIVE resumeAll(_, _, _)
resumeAll(st, p, waiters) ==
  IF waiters = <<>>
    THEN st
    ELSE LET i == Head(waiters)
         IN  IF st.browser.runs[i].awaits = p
               THEN resumeAll(afterDestroy(st, i), p, Tail(waiters))
               ELSE resumeAll([st EXCEPT !.browser.queue = Append(@, i)], p,
                              Tail(waiters))

settled(st, p) ==
  resumeAll([st EXCEPT !.browser.promises[p] = TRUE, !.browser.queue = <<>>],
            p, st.browser.queue)

\* tryStartWithRuntime after engine.initialize() has resolved
afterInitialize(st0, i) ==
  LET e == st0.browser.runs[i].engine
      st == [st0 EXCEPT !.browser.engines[e].initialized = TRUE,
                        !.sim.engineReadyRef = TRUE]
  IN  IF isStale(st, i) THEN at(st, i, "done") ELSE at(st, i, "apply")

\* tryStartWithRuntime after applyPartySession has resolved
afterApply(st, i) ==
  IF ~st.browser.runs[i].cancelled
    THEN at(st, i, "done")
    ELSE destroyAndWait(st, i, st.browser.runs[i].engine, "destroyCancelled")

\* The catch blocks of start(): the first attempt falls back to the CPU
\* runtime on Safari, the second gives up.
failed(st, i) ==
  IF /\ st.browser.runs[i].attempt = 1
     /\ ~st.browser.runs[i].cancelled
     /\ st.sim.isSafari
    THEN IF st.sim.engineRef # 0
           THEN destroyAndWait(st, i, st.sim.engineRef, "destroyFailed")
           ELSE tryStartWithRuntime(st, i, 2)
    ELSE at(st, i, "done")

\* The effect body: the token is taken and start() runs to its first await.
startupEffect(st, connected) ==
  LET token == st.sim.startupTokenRef + 1
  IN  [st EXCEPT !.sim.startupTokenRef = token,
                 !.sim.engineReadyRef = FALSE,
                 !.browser.mounted = TRUE,
                 !.browser.runs =
                   Append(@, [cancelled |-> FALSE, myToken |-> token,
                              pc |-> IF connected THEN "fetch" ELSE "sleep",
                              engine |-> 0, attempt |-> 0, awaits |-> 0])]

\* The function the effect returns, for the latest run
startupCleanup(st0) ==
  LET i == Len(st0.browser.runs)
      st == [st0 EXCEPT !.browser.runs[i].cancelled = TRUE,
                        !.browser.mounted = FALSE]
      engine == st.sim.engineRef
  IN  IF engine # 0
        THEN LET st2 == destroyEngine([st EXCEPT !.sim.engineRef = 0,
                                                 !.sim.engineReadyRef = FALSE],
                                      engine)
             IN  [st2 EXCEPT !.sim.destroyInFlightRef = Len(st2.browser.promises)]
        ELSE st

\* trace.lateInit tells whether some initialize() resolved for an engine
\* that had been destroyed; trace.sized is the engine the resize effect last
\* called setSize on.
BecomesCanvas(st, by) ==
  /\ sim' = st.sim
  /\ browser' = st.browser
  /\ trace' = [trace EXCEPT !.by = by]
  /\ UNCHANGED <<gridVars, callVars>>

CanvasInit ==
  /\ NoWorld
  /\ NoCall
  /\ \E safari \in BOOLEAN :
       sim = [engineRef |-> 0, engineReadyRef |-> FALSE, startupTokenRef |-> 0,
              destroyInFlightRef |-> 0, isSafari |-> safari]
  /\ browser = [mounted |-> FALSE, runs |-> <<>>, engines |-> <<>>, promises |-> <<>>,
                queue |-> <<>>]
  /\ trace = [by |-> "render", lateInit |-> FALSE, sized |-> 0]

waiting(i, pcs) ==
  /\ i \in 1..Len(browser.runs)
  /\ browser.runs[i].pc \in pcs

\* The component mounts, or mounts again with the same refs.
CanvasMount ==
  /\ ~browser.mounted
  /\ Len(browser.runs) < MaxMounts
  /\ \E connected \in BOOLEAN :
       BecomesCanvas(startupEffect(Canvas(sim, browser), connected), "mount")

\* The component unmounts.
CanvasUnmount ==
  /\ browser.mounted
  /\ BecomesCanvas(startupCleanup(Canvas(sim, browser)), "unmount")

\* sleep(100) is over: start() goes on if the canvas is connected by now.
SleepDone ==
  \E i \in 1..MaxMounts, connected \in BOOLEAN :
    /\ waiting(i, {"sleep"})
    /\ BecomesCanvas(at(Canvas(sim, browser), i, IF connected THEN "fetch" ELSE "done"),
                     "sleep")

\* The session has been fetched.
FetchDone ==
  \E i \in 1..MaxMounts :
    /\ waiting(i, {"fetch"})
    /\ BecomesCanvas(serialize(Canvas(sim, browser), i), "fetch")

\* The fetch failed: start() rejects.
FetchFailed ==
  \E i \in 1..MaxMounts :
    /\ waiting(i, {"fetch"})
    /\ BecomesCanvas(at(Canvas(sim, browser), i, "done"), "fetchFailed")

\* A destroyEngine promise settles (destroy() returned or the 400 ms passed),
\* and the runs of start() that await it go on.
DestroySettled ==
  \E p \in 1..Len(browser.promises) :
    /\ ~browser.promises[p]
    /\ BecomesCanvas(settled(Canvas(sim, browser), p), "settled")

\* engine.initialize() resolves; the engine may have been destroyed meanwhile.
InitializeDone ==
  \E i \in 1..MaxMounts :
    /\ waiting(i, {"initialize"})
    /\ sim' = afterInitialize(Canvas(sim, browser), i).sim
    /\ browser' = afterInitialize(Canvas(sim, browser), i).browser
    /\ trace' = [trace EXCEPT !.by = "initialized",
                              !.lateInit = @ \/ browser.engines[browser.runs[i].engine].destroyed]
    /\ UNCHANGED <<gridVars, callVars>>

\* engine.initialize() rejects.
InitializeFailed ==
  \E i \in 1..MaxMounts :
    /\ waiting(i, {"initialize"})
    /\ BecomesCanvas(failed(Canvas(sim, browser), i), "initializeFailed")

\* applyPartySession resolves.
ApplyDone ==
  \E i \in 1..MaxMounts :
    /\ waiting(i, {"apply"})
    /\ BecomesCanvas(afterApply(Canvas(sim, browser), i), "applied")

\* applyPartySession rejects.
ApplyFailed ==
  \E i \in 1..MaxMounts :
    /\ waiting(i, {"apply"})
    /\ BecomesCanvas(failed(Canvas(sim, browser), i), "applyFailed")

\* The resize effect runs (viewport or pixel ratio changed): engine.setSize
\* is called when there is an engine and the flag is set.
ResizeEffect ==
  /\ browser.mounted
  /\ sim.engineRef # 0 /\ sim.engineReadyRef
  /\ trace.sized # sim.engineRef
  /\ trace' = [trace EXCEPT !.by = "resize", !.sized = sim.engineRef]
  /\ UNCHANGED <<gridVars, callVars, sim, browser>>

CanvasNext ==
  \/ CanvasMount
  \/ CanvasUnmount
  \/ SleepDone
  \/ FetchDone
  \/ FetchFailed
  \/ DestroySettled
  \/ InitializeDone
  \/ InitializeFailed
  \/ ApplyDone
  \/ ApplyFailed
  \/ ResizeEffect

SpecCanvas == CanvasInit /\ [][CanvasNext]_vars

(***************************************************************************)
(* C39: the readiness flag and the engine engineRef refers to               *)
(***************************************************************************)
\* The engine engineRef refers to has completed initialize() and has not
\* been destroyed.
liveEngine ==
  /\ sim.engineRef # 0
  /\ browser.engines[sim.engineRef].initialized
  /\ ~browser.engines[sim.engineRef].destroyed

\* C39: in every state reached by mounts, unmounts, remounts and completions
\* of the asynchronous startup steps, engineReadyRef.current is true only if
\* engineRef.current refers to an engine whose initialize() has completed and
\* which has not been destroyed.
C39_ReadyOnlyForLiveEngine == sim.engineReadyRef => liveEngine

\* The component was unmounted while initialize() was pending and the call
\* resolved afterwards: the flag is set and engineRef is null.
C39_ReadyWithoutEngine ==
  /\ trace.by = "initialized"
  /\ sim.engineReadyRef
  /\ sim.engineRef = 0
  /\ ~browser.mounted
  /\ Len(browser.runs) = 1

\* After a remount the flag set by the first run stands while engineRef
\* refers to the second run's engine, whose initialize() is pending, and the
\* resize effect calls setSize on that engine.
C39_SetSizeBeforeInitialize ==
  /\ trace.by = "resize"
  /\ trace.sized = sim.engineRef
  /\ ~browser.engines[sim.engineRef].initialized
  /\ browser.runs[2].pc = "initialize"

\* No initialize() resolved for a destroyed engine, yet the flag is set while
\* engineRef refers to the engine a stale run built and destroyed.
C39_ReadyForDestroyedEngine ==
  /\ sim.engineReadyRef
  /\ ~trace.lateInit
  /\ sim.engineRef # 0
  /\ browser.engines[sim.engineRef].destroyed
  /\ ~browser.engines[sim.engineRef].initialized

\* Startup without interference: the flag is set for the initialized engine.
C39_ReadyForLiveEngine ==
  /\ sim.engineReadyRef
  /\ liveEngine
  /\ browser.mounted
  /\ browser.runs[Len(browser.runs)].pc = "done"

====
